---- MODULE Spec2Model ----
(***************************************************************************)
(* rings-node: the dummy transport (transport/src/connections/dummy),      *)
(* the transport interface (transport/src/core/transport.rs) and the       *)
(* per-connection swarm callback (core/src/swarm/callback.rs).             *)
(*                                                                         *)
(* Spec       the connection lifecycle of two nodes over the process-wide  *)
(*            tables CONNS and CBS, with messages sent over connections.   *)
(* SpecChunk  the inbound pipeline of one established connection that is   *)
(*            fed the fragments of chunked payloads in any order.          *)
(***************************************************************************)
EXTENDS Integers, Sequences, FiniteSets, TLC

\* ------------------------------------------------------------------ bounds

\* Number of DummyConnection objects the process creates.
MaxConns == 2
\* TRANSPORT_MTU, scaled down: the largest fragment body.
TRANSPORT_MTU == 2
\* Longest byte string handed to the chunk codec.
MaxLen == 5
\* The hops a new payload may make (the default TTL, scaled down).
DefaultTtl == 3

\* ------------------------------------------------------------- vocabulary

\* The DIDs of the two nodes; a cid is the string form of the remote DID.
Did == {1, 2}
Cids(did) == Did \ {did}

RandIds == 1..MaxConns
\* Option<String>::None of remote_rand_id.
None == 0

WebrtcConnectionState ==
    {"Unspecified", "New", "Connecting", "Connected", "Disconnected", "Failed", "Closed"}

Results == {"Ok", "Err"}

\* Bytes are sequences of small naturals.
Min(a, b) == IF a < b THEN a ELSE b
SubSeqFrom(s, i) == IF i > Len(s) THEN << >> ELSE SubSeq(s, i, Len(s))

VARIABLES
    conns,       \* <<DummyConnection>>: conns[rand_id] = [did, cid, webrtc_connection_state, remote_rand_id]
    pool,        \* DummyTransport.pool of each node: pool[did][cid] = rand_id or None
    CONNS,       \* the process-wide table of connections: the rand_ids registered
    CBS,         \* the process-wide table of callbacks: rand_id -> [did, cid]
    observed,    \* observed[rand_id]: the states the connection's observer was told, in order
    chunk_list,  \* chunk_list[rand_id]: the ChunkList of the connection's InnerSwarmCallback
    todo,        \* SpecChunk: the fragment envelopes not yet accepted by the receiver
    sending,     \* SpecChunk: chunk id -> the byte string in transfer
    emitted,     \* SpecChunk: chunk id -> the byte strings the reassembler returned for it
    delivered,   \* SpecChunk: chunk id -> number of on_inbound calls for its reassembled payload
    op,          \* the last operation: its arguments, result and what the callbacks saw
    msgs,        \* msgs[did]: the payloads the node's on_inbound collected, in order
    events,      \* events[did]: the DataChannelMessage events in the swarm's event channel
    journal,     \* history: the payloads created and forwarded, the sends issued and
                 \* handed over, what the last leave or notify found, the events and
                 \* on_validate calls of the fragments of a chunk id
    ring,        \* ring[did]: the PeerRing of the node
    links,       \* the pairs of peers between which a connection was made
    gone,        \* the peers all of whose connections were closed
    ticks,       \* the stabilizer periods: who ticked in this one, how many are over,
                 \* and whether the peers started connected to their DID-neighbours
    inflight,    \* the send_message calls that have not come out of random_delay
    stopped,     \* the nodes whose event loop has ended: their event channel is closed
    handler      \* the message endpoints of the Backend, in list order

vars == <<conns, pool, CONNS, CBS, observed, chunk_list, todo, sending, emitted, delivered, op,
          msgs, events, journal, ring, links, gone, ticks, inflight, stopped, handler>>
swarmVars == <<msgs, events, journal, ring, links, gone, ticks, inflight, stopped, handler>>
transportVars == <<conns, pool, CONNS, CBS, observed>>
chunkVars == <<todo, sending, emitted, delivered>>

\* ------------------------------------------------------------ wire format

\* Did::to_string / Did::from_str: the cid of a connection is the string form
\* of the remote DID.
DidToString(did) == ToString(did)
DidFromStr(cid) ==
    IF \E d \in Did : ToString(d) = cid
    THEN [ok |-> TRUE, did |-> CHOOSE d \in Did : ToString(d) = cid]
    ELSE [ok |-> FALSE, did |-> 0]

\* bincode of TransportMessage::Custom(Vec<u8>): the variant index, the length,
\* the bytes.
serialize(custom) == <<0, Len(custom)>> \o custom
deserialize(data) ==
    IF Len(data) >= 2 /\ data[1] = 0 /\ data[2] = Len(data) - 2
    THEN [ok |-> TRUE, custom |-> SubSeqFrom(data, 3)]
    ELSE [ok |-> FALSE, custom |-> << >>]

\* MessagePayload::to_bincode / from_bincode. An envelope is the destination,
\* the verification data, the nonce, the origin, the hops left, the relay
\* path (length-prefixed) and the transaction's data. The verification data is
\* modelled by its two outcomes: bit 0 set when the payload's session
\* signature is valid and unexpired, bit 1 set when the transaction's
\* signature is valid.
to_bincode(payload) ==
    << payload.destination,
       (IF payload.session_ok THEN 1 ELSE 0) + (IF payload.tx_ok THEN 2 ELSE 0),
       payload.nonce, payload.origin, payload.ttl_hops, Len(payload.relay) >>
    \o payload.relay \o payload.data
from_bincode(msg) ==
    IF Len(msg) >= 6 /\ msg[2] \in 0..3 /\ Len(msg) >= 6 + msg[6]
    THEN [ok |-> TRUE,
          payload |-> [destination |-> msg[1],
                       session_ok |-> msg[2] % 2 = 1,
                       tx_ok |-> msg[2] \div 2 = 1,
                       nonce |-> msg[3],
                       origin |-> msg[4],
                       ttl_hops |-> msg[5],
                       relay |-> IF msg[6] = 0 THEN << >> ELSE SubSeq(msg, 7, 6 + msg[6]),
                       data |-> SubSeqFrom(msg, 7 + msg[6])]]
    ELSE [ok |-> FALSE]

\* payload.verify() and payload.transaction.verify()
verify(payload) == payload.session_ok
transaction_verify(payload) == payload.tx_ok

\* Message::CustomMessage(body) and Message::Chunk(chunk) as transaction data.
custom_message(body) == <<0>> \o body
chunk_message(chunk) == <<1, chunk.id, chunk.index, chunk.total>> \o chunk.data
NoChunk == [id |-> 0, index |-> 0, total |-> 0, data |-> << >>]
\* payload.transaction.data()
transaction_data(payload) ==
    LET d == payload.data IN
    IF Len(d) >= 1 /\ d[1] = 0
    THEN [ok |-> TRUE, tag |-> "CustomMessage", body |-> SubSeqFrom(d, 2), chunk |-> NoChunk]
    ELSE IF Len(d) >= 4 /\ d[1] = 1
    THEN [ok |-> TRUE, tag |-> "Chunk", body |-> << >>,
          chunk |-> [id |-> d[2], index |-> d[3], total |-> d[4], data |-> SubSeqFrom(d, 5)]]
    ELSE [ok |-> FALSE, tag |-> "None", body |-> << >>, chunk |-> NoChunk]

\* ------------------------------------------------------------ chunk codec

\* Number of fragments of a byte string.
chunk_total(bytes) == (Len(bytes) + TRANSPORT_MTU - 1) \div TRANSPORT_MTU
\* Split a byte string into fragments (chunk_id, index, total, bytes).
split(bytes, id) ==
    { [id |-> id, index |-> i, total |-> chunk_total(bytes),
       data |-> SubSeq(bytes, i * TRANSPORT_MTU + 1,
                       Min((i + 1) * TRANSPORT_MTU, Len(bytes)))]
      : i \in 0..(chunk_total(bytes) - 1) }

\* The bytes of parts 0..n-1 in index order.
RECURSIVE assemble(_, _)
assemble(parts, n) ==
    IF n = 0 THEN << >>
    ELSE assemble(parts, n - 1) \o (CHOOSE p \in parts : p.index = n - 1).data

\* ChunkList::handle: a ChunkList is a table chunk_id -> (total, received_map),
\* held as a set of entries [id, total, parts]. A fragment joins the entry of
\* its chunk_id (a later fragment overwrites an earlier one of the same index;
\* a fragment of another total starts the entry afresh); when every index is
\* received the assembled bytes are returned and the entry is removed.
handle(list, chunk) ==
    LET old == {e \in list : e.id = chunk.id}
        kept == {e \in old : e.total = chunk.total}
        base == IF kept = {} THEN {} ELSE (CHOOSE e \in kept : TRUE).parts
        parts == {p \in base : p.index # chunk.index}
                 \cup {[index |-> chunk.index, data |-> chunk.data]}
        complete == \A i \in 0..(chunk.total - 1) : \E p \in parts : p.index = i
    IN IF complete
       THEN [some |-> TRUE, data |-> assemble(parts, chunk.total), list |-> list \ old]
       ELSE [some |-> FALSE, data |-> << >>,
             list |-> (list \ old)
                      \cup {[id |-> chunk.id, total |-> chunk.total, parts |-> parts]}]

\* --------------------------------------------------------- swarm callback

\* The SwarmCallback each node's swarm was built with. Node 1 keeps the
\* builder's DefaultCallback, whose three methods return Ok. Node 2 runs an
\* application callback that refuses some payloads and events: on_validate
\* fails on nonce 1, on_inbound fails on nonce 2, on_event fails on the
\* Connecting and Disconnected states.
DefaultCallback(did) == did = 1
on_validate(did, payload) ==
    IF DefaultCallback(did) THEN "Ok" ELSE IF payload.nonce = 1 THEN "Err" ELSE "Ok"
on_inbound(did, payload) ==
    IF DefaultCallback(did) THEN "Ok" ELSE IF payload.nonce = 2 THEN "Err" ELSE "Ok"
on_event(did, state) ==
    IF DefaultCallback(did) THEN "Ok"
    ELSE IF state \in {"Connecting", "Disconnected"} THEN "Err" ELSE "Ok"

\* Channel::send on the transport-event channel of a node: fails once the
\* receiving end, held by the event loop, is closed.
Channel_send(did) == IF did \in stopped THEN "Err" ELSE "Ok"

\* The record of one InnerSwarmCallback::on_message call.
NewCall(msg, depth) ==
    [msg |-> msg, depth |-> depth, parsed |-> FALSE, destination |-> 0, tag |-> "None",
     chunk_id |-> 0,
     verified |-> FALSE, validate |-> "NotInvoked", enqueued |-> FALSE,
     chunk |-> "Untouched", inbound |-> "NotInvoked", result |-> "Err"]

RECURSIVE on_message(_, _, _, _)

\* handle_payload with the fragment's own bytes, not the assembled bytes,
\* handed to the nested on_message.
handle_payload_fragment_bytes(list, did, payload, call) ==
    LET message == transaction_data(payload) IN
    IF message.ok /\ message.tag = "Chunk" /\ call.depth = 1 /\ handle(list, message.chunk).some
    THEN LET h == handle(list, message.chunk)
             nested == on_message(h.list, did, message.chunk.data, call.depth + 1)
         IN [result |-> nested.result,
             calls |-> <<[call EXCEPT !.chunk = "Assembled",
                                      !.result = nested.result]>> \o nested.calls,
             chunk_list |-> nested.chunk_list]
    ELSE IF message.ok /\ message.tag = "Chunk"
    THEN [result |-> "Ok", calls |-> <<[call EXCEPT !.chunk = "Stored", !.result = "Ok"]>>,
          chunk_list |-> handle(list, message.chunk).list]
    ELSE IF message.ok /\ payload.destination = did
    THEN [result |-> on_inbound(did, payload),
          calls |-> <<[call EXCEPT !.inbound = on_inbound(did, payload),
                                   !.result = on_inbound(did, payload)]>>,
          chunk_list |-> list]
    ELSE [result |-> IF message.ok THEN "Ok" ELSE "Err",
          calls |-> <<[call EXCEPT !.result = IF message.ok THEN "Ok" ELSE "Err"]>>,
          chunk_list |-> list]

\* handle_payload without the `return Ok(())` of a fragment that completes
\* nothing: the fragment's envelope falls through to the destination test.
handle_payload_fragment_falls_through(list, did, payload, call) ==
    LET message == transaction_data(payload)
        h == handle(list, message.chunk)
    IN IF message.ok /\ message.tag = "Chunk" /\ call.depth = 1 /\ h.some
       THEN LET nested == on_message(h.list, did, h.data, call.depth + 1) IN
            [result |-> nested.result,
             calls |-> <<[call EXCEPT !.chunk = "Assembled",
                                      !.result = nested.result]>> \o nested.calls,
             chunk_list |-> nested.chunk_list]
       ELSE IF message.ok /\ payload.destination = did
       THEN [result |-> on_inbound(did, payload),
             calls |-> <<[call EXCEPT
                             !.chunk = IF message.tag = "Chunk" THEN "Stored" ELSE "Untouched",
                             !.inbound = on_inbound(did, payload),
                             !.result = on_inbound(did, payload)]>>,
             chunk_list |-> IF message.tag = "Chunk" THEN h.list ELSE list]
       ELSE [result |-> IF message.ok THEN "Ok" ELSE "Err",
             calls |-> <<[call EXCEPT
                             !.chunk = IF message.ok /\ message.tag = "Chunk"
                                       THEN "Stored" ELSE "Untouched",
                             !.result = IF message.ok THEN "Ok" ELSE "Err"]>>,
             chunk_list |-> IF message.ok /\ message.tag = "Chunk" THEN h.list ELSE list]

\* handle_payload without the destination test before on_inbound.
handle_payload_any_destination(list, did, payload, call) ==
    LET message == transaction_data(payload)
        h == handle(list, message.chunk)
    IN IF message.ok /\ message.tag = "Chunk" /\ call.depth = 1 /\ h.some
       THEN LET nested == on_message(h.list, did, h.data, call.depth + 1) IN
            [result |-> nested.result,
             calls |-> <<[call EXCEPT !.chunk = "Assembled",
                                      !.result = nested.result]>> \o nested.calls,
             chunk_list |-> nested.chunk_list]
       ELSE IF message.ok /\ message.tag = "Chunk"
       THEN [result |-> "Ok", calls |-> <<[call EXCEPT !.chunk = "Stored", !.result = "Ok"]>>,
             chunk_list |-> h.list]
       ELSE IF message.ok
       THEN [result |-> on_inbound(did, payload),
             calls |-> <<[call EXCEPT !.inbound = on_inbound(did, payload),
                                      !.result = on_inbound(did, payload)]>>,
             chunk_list |-> list]
       ELSE [result |-> "Err", calls |-> <<call>>, chunk_list |-> list]

\* InnerSwarmCallback::handle_payload, entered after the DataChannelMessage
\* event is enqueued. The guard of chunk_list.lock() lives to the end of the
\* `if let` statement, so it is still held while the nested on_message runs
\* (depth > 1): a nested Chunk message waits for the lock for ever.
handle_payload(list, did, payload, call) ==
    LET message == transaction_data(payload) IN
    IF ~message.ok
    THEN [result |-> "Err", calls |-> <<call>>, chunk_list |-> list]
    ELSE IF message.tag = "Chunk"
    THEN IF call.depth > 1
         THEN [result |-> "Deadlock",
               calls |-> <<[call EXCEPT !.result = "Deadlock"]>>, chunk_list |-> list]
         ELSE LET h == handle(list, message.chunk) IN
              IF h.some
              THEN LET nested == on_message(h.list, did, h.data, call.depth + 1) IN
                   [result |-> nested.result,
                    calls |-> <<[call EXCEPT !.chunk = "Assembled",
                                             !.result = nested.result]>> \o nested.calls,
                    chunk_list |-> nested.chunk_list]
              ELSE [result |-> "Ok",
                    calls |-> <<[call EXCEPT !.chunk = "Stored", !.result = "Ok"]>>,
                    chunk_list |-> h.list]
    ELSE IF payload.destination = did
    THEN [result |-> on_inbound(did, payload),
          calls |-> <<[call EXCEPT !.inbound = on_inbound(did, payload),
                                   !.result = on_inbound(did, payload)]>>,
          chunk_list |-> list]
    ELSE [result |-> "Ok", calls |-> <<[call EXCEPT !.result = "Ok"]>>, chunk_list |-> list]

\* on_message that checks payload.verify() alone.
on_message_no_transaction_verify(list, did, msg, depth) ==
    LET parsed == from_bincode(msg)
        c0 == NewCall(msg, depth)
    IN IF ~parsed.ok
       THEN [result |-> "Err", calls |-> <<c0>>, chunk_list |-> list]
       ELSE LET payload == parsed.payload
                c1 == [c0 EXCEPT !.parsed = TRUE, !.destination = payload.destination,
                                 !.tag = transaction_data(payload).tag,
                                 !.chunk_id = transaction_data(payload).chunk.id]
            IN IF ~verify(payload)
               THEN [result |-> "Err", calls |-> <<c1>>, chunk_list |-> list]
               ELSE LET c2 == [c1 EXCEPT !.verified = TRUE, !.validate = on_validate(did, payload)]
                    IN IF on_validate(did, payload) = "Err" \/ Channel_send(did) = "Err"
                       THEN [result |-> "Err", calls |-> <<c2>>, chunk_list |-> list]
                       ELSE handle_payload(list, did, payload,
                                           [c2 EXCEPT !.enqueued = TRUE])

\* on_message that calls on_validate and drops its result.
on_message_validate_ignored(list, did, msg, depth) ==
    LET parsed == from_bincode(msg)
        c0 == NewCall(msg, depth)
    IN IF ~parsed.ok
       THEN [result |-> "Err", calls |-> <<c0>>, chunk_list |-> list]
       ELSE LET payload == parsed.payload
                c1 == [c0 EXCEPT !.parsed = TRUE, !.destination = payload.destination,
                                 !.tag = transaction_data(payload).tag,
                                 !.chunk_id = transaction_data(payload).chunk.id]
            IN IF ~(verify(payload) /\ transaction_verify(payload))
               THEN [result |-> "Err", calls |-> <<c1>>, chunk_list |-> list]
               ELSE IF Channel_send(did) = "Err"
               THEN [result |-> "Err",
                     calls |-> <<[c1 EXCEPT !.verified = TRUE,
                                            !.validate = on_validate(did, payload)]>>,
                     chunk_list |-> list]
               ELSE handle_payload(list, did, payload,
                                   [c1 EXCEPT !.verified = TRUE,
                                              !.validate = on_validate(did, payload),
                                              !.enqueued = TRUE])

\* on_message that sends the event only for a payload addressed to the node.
on_message_event_for_local_only(list, did, msg, depth) ==
    LET parsed == from_bincode(msg)
        c0 == NewCall(msg, depth)
    IN IF ~parsed.ok
       THEN [result |-> "Err", calls |-> <<c0>>, chunk_list |-> list]
       ELSE LET payload == parsed.payload
                c1 == [c0 EXCEPT !.parsed = TRUE, !.destination = payload.destination,
                                 !.tag = transaction_data(payload).tag,
                                 !.chunk_id = transaction_data(payload).chunk.id]
            IN IF ~(verify(payload) /\ transaction_verify(payload))
               THEN [result |-> "Err", calls |-> <<c1>>, chunk_list |-> list]
               ELSE LET c2 == [c1 EXCEPT !.verified = TRUE, !.validate = on_validate(did, payload)]
                    IN IF on_validate(did, payload) = "Err" \/ Channel_send(did) = "Err"
                       THEN [result |-> "Err", calls |-> <<c2>>, chunk_list |-> list]
                       ELSE handle_payload(list, did, payload,
                                           [c2 EXCEPT !.enqueued = payload.destination = did])

\* InnerSwarmCallback::on_message of the callback of local DID `did` whose
\* chunk buffer is `list`: parse, verify, on_validate, enqueue
\* DataChannelMessage(msg), handle_payload.
on_message(list, did, msg, depth) ==
    LET parsed == from_bincode(msg)
        c0 == NewCall(msg, depth)
    IN IF ~parsed.ok
       THEN [result |-> "Err", calls |-> <<c0>>, chunk_list |-> list]
       ELSE LET payload == parsed.payload
                c1 == [c0 EXCEPT !.parsed = TRUE, !.destination = payload.destination,
                                 !.tag = transaction_data(payload).tag,
                                 !.chunk_id = transaction_data(payload).chunk.id]
            IN IF ~(verify(payload) /\ transaction_verify(payload))
               THEN [result |-> "Err", calls |-> <<c1>>, chunk_list |-> list]
               ELSE LET c2 == [c1 EXCEPT !.verified = TRUE, !.validate = on_validate(did, payload)]
                    IN IF on_validate(did, payload) = "Err" \/ Channel_send(did) = "Err"
                       THEN [result |-> "Err", calls |-> <<c2>>, chunk_list |-> list]
                       ELSE handle_payload(list, did, payload,
                                           [c2 EXCEPT !.enqueued = TRUE])

\* on_peer_connection_state_change that sends no event for Failed.
on_peer_connection_state_change_failed_unsent(rand_id, did, cid, s) ==
    LET parsed == DidFromStr(cid)
        event == IF s = "Connected" THEN "Connected"
                 ELSE IF s \in {"Disconnected", "Closed"} THEN "Closed"
                 ELSE "None"
        note == [rand_id |-> rand_id, cid |-> cid, state |-> s, peer |-> parsed.did,
                 event |-> "None", on_event |-> "NotInvoked", result |-> "Ok"]
    IN IF ~parsed.ok THEN note
       ELSE IF event # "None" /\ Channel_send(did) = "Err"
       THEN [note EXCEPT !.result = "Err"]
       ELSE [note EXCEPT !.event = event,
                         !.on_event = on_event(did, s),
                         !.result = on_event(did, s)]

\* on_peer_connection_state_change that calls on_event before the send and
\* returns its error.
on_peer_connection_state_change_on_event_first(rand_id, did, cid, s) ==
    LET parsed == DidFromStr(cid)
        event == IF s = "Connected" THEN "Connected"
                 ELSE IF s \in {"Failed", "Disconnected", "Closed"} THEN "Closed"
                 ELSE "None"
        note == [rand_id |-> rand_id, cid |-> cid, state |-> s, peer |-> parsed.did,
                 event |-> "None", on_event |-> "NotInvoked", result |-> "Ok"]
    IN IF ~parsed.ok THEN note
       ELSE IF on_event(did, s) = "Err"
       THEN [note EXCEPT !.on_event = "Err", !.result = "Err"]
       ELSE IF event # "None" /\ Channel_send(did) = "Err"
       THEN [note EXCEPT !.on_event = "Ok", !.result = "Err"]
       ELSE [note EXCEPT !.event = event, !.on_event = "Ok"]

\* InnerSwarmCallback::on_peer_connection_state_change of the callback that
\* node `did` registered for `cid`: the transport event enqueued and the on_event call.
on_peer_connection_state_change(rand_id, did, cid, s) ==
    LET parsed == DidFromStr(cid)
        event == IF s = "Connected" THEN "Connected"
                 ELSE IF s \in {"Failed", "Disconnected", "Closed"} THEN "Closed"
                 ELSE "None"
        note == [rand_id |-> rand_id, cid |-> cid, state |-> s, peer |-> parsed.did,
                 event |-> "None", on_event |-> "NotInvoked", result |-> "Ok"]
    IN IF ~parsed.ok THEN note
       ELSE IF event # "None" /\ Channel_send(did) = "Err"
       THEN [note EXCEPT !.result = "Err"]
       ELSE [note EXCEPT !.event = event,
                         !.on_event = on_event(did, s),
                         !.result = on_event(did, s)]

\* -------------------------------------------------------- dummy connection

LiveStates == {"New", "Connecting", "Connected"}

\* The offers and answers a connection may be handed: the rand_ids of the
\* connections its peer node holds for it.
Sdps(rand_id) ==
    {r \in 1..Len(conns) : /\ DidToString(conns[r].did) = conns[rand_id].cid
                            /\ DidToString(conns[rand_id].did) = conns[r].cid}

\* CBS.get(rand_id)
HasCallback(rand_id) == \E cb \in CBS : cb.rand_id = rand_id
CallbackOf(rand_id) == CHOOSE cb \in CBS : cb.rand_id = rand_id

\* The connections as an operation finds them; `notes` collects the
\* notifications its callbacks receive, `result` turns to "Panic" on an unwrap
\* of None.
World == [conns |-> conns, observed |-> observed, notes |-> << >>, result |-> "Ok"]

\* set_webrtc_connection_state without the test for the state it already has.
set_webrtc_connection_state_unconditional(w, rand_id, state) ==
    IF w.result # "Ok" THEN w
    ELSE LET changed == [w EXCEPT !.conns[rand_id].webrtc_connection_state = state]
         IN IF ~HasCallback(rand_id)
            THEN [changed EXCEPT !.result = "Panic"]
            ELSE [changed EXCEPT
                     !.observed[rand_id] = state,
                     !.notes = Append(@, on_peer_connection_state_change(
                                   rand_id, CallbackOf(rand_id).did,
                                   CallbackOf(rand_id).cid, state))]

\* DummyConnection::set_webrtc_connection_state
set_webrtc_connection_state(w, rand_id, state) ==
    IF w.result # "Ok" THEN w
    ELSE IF state = w.conns[rand_id].webrtc_connection_state THEN w
    ELSE LET changed == [w EXCEPT !.conns[rand_id].webrtc_connection_state = state]
         IN IF ~HasCallback(rand_id)
            THEN [changed EXCEPT !.result = "Panic"]
            ELSE [changed EXCEPT
                     !.observed[rand_id] = state,
                     !.notes = Append(@, on_peer_connection_state_change(
                                   rand_id, CallbackOf(rand_id).did,
                                   CallbackOf(rand_id).cid, state))]

\* DummyConnection::set_remote_rand_id
set_remote_rand_id(w, rand_id, remote) ==
    IF w.result # "Ok" THEN w ELSE [w EXCEPT !.conns[rand_id].remote_rand_id = remote]

\* DummyConnection::remote_conn: unwraps remote_rand_id and CONNS.get.
HasRemoteConn(w, rand_id) ==
    /\ w.conns[rand_id].remote_rand_id # None
    /\ w.conns[rand_id].remote_rand_id \in CONNS
remote_conn(w, rand_id) == w.conns[rand_id].remote_rand_id

\* DummyConnection::webrtc_create_offer
webrtc_create_offer(w, rand_id) ==
    set_webrtc_connection_state(w, rand_id, "Connecting")

\* DummyConnection::webrtc_answer_offer
webrtc_answer_offer(w, rand_id, offer) ==
    set_remote_rand_id(set_webrtc_connection_state(w, rand_id, "Connecting"), rand_id, offer)

\* webrtc_accept_answer that marks the local end alone.
webrtc_accept_answer_local_only(w, rand_id, answer) ==
    set_remote_rand_id(set_webrtc_connection_state(w, rand_id, "Connected"), rand_id, answer)

\* DummyConnection::webrtc_accept_answer
webrtc_accept_answer(w, rand_id, answer) ==
    LET w1 == set_webrtc_connection_state(w, rand_id, "Connected")
        w2 == set_remote_rand_id(w1, rand_id, answer)
    IN IF w2.result # "Ok" THEN w2
       ELSE IF ~HasRemoteConn(w2, rand_id) THEN [w2 EXCEPT !.result = "Panic"]
       ELSE set_webrtc_connection_state(w2, remote_conn(w2, rand_id), "Connected")

\* DummyConnection::webrtc_wait_for_data_channel_open (CHANNEL_OPEN_DELAY is false)
webrtc_wait_for_data_channel_open(rand_id) == "Ok"

\* close that moves the remote end straight to Closed.
close_remote_without_disconnected(w, rand_id) ==
    LET w1 == set_webrtc_connection_state(w, rand_id, "Closed")
    IN IF w1.result # "Ok" THEN w1
       ELSE IF ~HasRemoteConn(w1, rand_id) THEN [w1 EXCEPT !.result = "Panic"]
       ELSE set_webrtc_connection_state(w1, remote_conn(w1, rand_id), "Closed")

\* DummyConnection::close
close(w, rand_id) ==
    LET w1 == set_webrtc_connection_state(w, rand_id, "Closed")
    IN IF w1.result # "Ok" THEN w1
       ELSE IF ~HasRemoteConn(w1, rand_id) THEN [w1 EXCEPT !.result = "Panic"]
       ELSE IF w1.conns[remote_conn(w1, rand_id)].webrtc_connection_state # "Closed"
       THEN set_webrtc_connection_state(
                set_webrtc_connection_state(w1, remote_conn(w1, rand_id), "Disconnected"),
                remote_conn(w1, rand_id), "Closed")
       ELSE w1

\* send_message that hands the bytes to the connection's own callback.
send_message_to_own_callback(rand_id, msg) ==
    LET open == webrtc_wait_for_data_channel_open(rand_id)
        data == serialize(msg)
        remote == conns[rand_id].remote_rand_id
        none == [result |-> "Panic", calls |-> << >>, remote |-> None, chunk_list |-> { }]
    IN IF open # "Ok" THEN [none EXCEPT !.result = "ChannelNotOpen"]
       ELSE IF remote = None \/ ~HasCallback(rand_id) THEN none
       ELSE LET m == deserialize(data) IN
            IF ~m.ok THEN [none EXCEPT !.result = "Ok", !.remote = rand_id,
                                      !.chunk_list = chunk_list[rand_id]]
            ELSE LET r == on_message(chunk_list[rand_id], CallbackOf(rand_id).did,
                                     m.custom, 1)
                 IN [result |-> IF r.result = "Deadlock" THEN "Deadlock" ELSE "Ok",
                     calls |-> r.calls, remote |-> rand_id,
                     chunk_list |-> r.chunk_list]

\* DummyConnection::send_message: after the delay, wait for the data channel,
\* serialize, and hand the bytes to the remote callback, whose
\* InnerTransportCallback deserializes them and calls the swarm callback's
\* on_message; what that returns is not looked at.
send_message(rand_id, msg) ==
    LET open == webrtc_wait_for_data_channel_open(rand_id)
        data == serialize(msg)
        remote == conns[rand_id].remote_rand_id
        none == [result |-> "Panic", calls |-> << >>, remote |-> None, chunk_list |-> { }]
    IN IF open # "Ok" THEN [none EXCEPT !.result = "ChannelNotOpen"]
       ELSE IF remote = None \/ ~HasCallback(remote) THEN none
       ELSE LET m == deserialize(data) IN
            IF ~m.ok THEN [none EXCEPT !.result = "Ok", !.remote = remote,
                                      !.chunk_list = chunk_list[remote]]
            ELSE LET r == on_message(chunk_list[remote], CallbackOf(remote).did,
                                     m.custom, 1)
                 IN [result |-> IF r.result = "Deadlock" THEN "Deadlock" ELSE "Ok",
                     calls |-> r.calls, remote |-> remote,
                     chunk_list |-> r.chunk_list]

\* --------------------------------------------------------- dummy transport

\* Pool::connection: the rand_id of the pooled connection, or None.
connection(did, cid) == pool[did][cid]

\* ConnectionRef: the cid and a weak reference to the connection.
ConnectionRef(rand_id) == [cid |-> conns[rand_id].cid, conn |-> rand_id]
\* The owners of a connection: the pool that holds it under its cid, and the
\* table CONNS, in which new_connection puts connection(cid).upgrade().
strong_count(rand_id) ==
    (IF pool[conns[rand_id].did][conns[rand_id].cid] = rand_id THEN 1 ELSE 0)
    + (IF rand_id \in CONNS THEN 1 ELSE 0)
\* ConnectionRef::upgrade: fails once no owner is left.
upgrade(ref) == IF strong_count(ref.conn) > 0 THEN "Ok" ELSE "ConnectionReleased"

\* safely_insert that puts the connection in whatever the pool holds.
safely_insert_over_live(p, cid, rand_id) ==
    [ok |-> TRUE, pool |-> [p EXCEPT ![cid] = rand_id]]

\* Pool::safely_insert: fails when a live connection is pooled under cid.
safely_insert(p, cid, rand_id) ==
    IF p[cid] # None /\ conns[p[cid]].webrtc_connection_state \in LiveStates
    THEN [ok |-> FALSE, pool |-> p]
    ELSE [ok |-> TRUE, pool |-> [p EXCEPT ![cid] = rand_id]]

\* DummyConnection::new
DummyConnection(did, cid) ==
    [did |-> did, cid |-> cid, webrtc_connection_state |-> "New", remote_rand_id |-> None]

\* new_connection that refuses only a Connected connection and overwrites the
\* pool entry otherwise.
new_connection_connected_only(did, cid) ==
    LET existed_conn == connection(did, cid)
        conn_rand_id == Len(conns) + 1
    IN IF existed_conn # None /\ conns[existed_conn].webrtc_connection_state = "Connected"
       THEN [result |-> "ConnectionAlreadyExists", rand_id |-> None,
             conns |-> conns, pool |-> pool, CONNS |-> CONNS, CBS |-> CBS]
       ELSE [result |-> "Ok", rand_id |-> conn_rand_id,
             conns |-> Append(conns, DummyConnection(did, cid)),
             pool |-> [pool EXCEPT ![did][cid] = conn_rand_id],
             CONNS |-> CONNS \cup {conn_rand_id},
             CBS |-> CBS \cup {[rand_id |-> conn_rand_id, did |-> did, cid |-> cid]}]

\* new_connection that refuses whenever the pool holds a connection for cid.
new_connection_once(did, cid) ==
    LET existed_conn == connection(did, cid)
        conn_rand_id == Len(conns) + 1
    IN IF existed_conn # None
       THEN [result |-> "ConnectionAlreadyExists", rand_id |-> None,
             conns |-> conns, pool |-> pool, CONNS |-> CONNS, CBS |-> CBS]
       ELSE [result |-> "Ok", rand_id |-> conn_rand_id,
             conns |-> Append(conns, DummyConnection(did, cid)),
             pool |-> [pool EXCEPT ![did][cid] = conn_rand_id],
             CONNS |-> CONNS \cup {conn_rand_id},
             CBS |-> CBS \cup {[rand_id |-> conn_rand_id, did |-> did, cid |-> cid]}]

\* DummyTransport::new_connection
new_connection(did, cid) ==
    LET existed_conn == connection(did, cid)
        conn_rand_id == Len(conns) + 1
        refused == [result |-> "ConnectionAlreadyExists", rand_id |-> None,
                   conns |-> conns, pool |-> pool, CONNS |-> CONNS, CBS |-> CBS]
    IN IF /\ existed_conn # None
          /\ conns[existed_conn].webrtc_connection_state \in {"New", "Connecting", "Connected"}
       THEN refused
       ELSE LET ins == safely_insert(pool[did], cid, conn_rand_id) IN
            IF ~ins.ok THEN refused
            ELSE [result |-> "Ok", rand_id |-> conn_rand_id,
                  conns |-> Append(conns, DummyConnection(did, cid)),
                  pool |-> [pool EXCEPT ![did] = ins.pool],
                  CONNS |-> CONNS \cup {conn_rand_id},
                  CBS |-> CBS \cup {[rand_id |-> conn_rand_id, did |-> did, cid |-> cid]}]

\* DummyTransport::close_connection: Pool::safely_remove takes the connection
\* out of the pool and closes it.
close_connection(w, did, cid) ==
    IF connection(did, cid) = None THEN w ELSE close(w, connection(did, cid))

\* ---------------------------------------------------------------- actions

Op(name, rand_id, did, cid, arg, state, result, notes, calls) ==
    [name |-> name, rand_id |-> rand_id, did |-> did, cid |-> cid, arg |-> arg,
     state |-> state, result |-> result, notes |-> notes, calls |-> calls]

ConnOp(name, rand_id, arg, result, notes, calls) ==
    Op(name, rand_id, conns[rand_id].did, conns[rand_id].cid, arg,
       conns[rand_id].webrtc_connection_state, result, notes, calls)

Apply(w) ==
    /\ conns' = w.conns
    /\ observed' = w.observed

NewConnection(did, cid) ==
    LET r == new_connection(did, cid) IN
    /\ r.result = "Ok" => Len(conns) < MaxConns
    /\ conns' = r.conns
    /\ pool' = r.pool
    /\ CONNS' = r.CONNS
    /\ CBS' = r.CBS
    /\ observed' = IF r.result = "Ok" THEN Append(observed, "Unspecified") ELSE observed
    /\ chunk_list' = IF r.result = "Ok" THEN Append(chunk_list, { }) ELSE chunk_list
    /\ op' = Op("new_connection", r.rand_id, did, cid, 0, "Unspecified", r.result, << >>, << >>)
    /\ UNCHANGED chunkVars
    /\ UNCHANGED swarmVars

CloseConnection(did, cid) ==
    LET w == close_connection(World, did, cid) IN
    /\ Apply(w)
    /\ pool' = [pool EXCEPT ![did][cid] = None]
    /\ op' = Op("close_connection", connection(did, cid), did, cid, 0, "Unspecified",
                w.result, w.notes, << >>)
    /\ UNCHANGED <<CONNS, CBS, chunk_list, chunkVars>>
    /\ UNCHANGED swarmVars

CreateOffer(rand_id) ==
    LET w == webrtc_create_offer(World, rand_id) IN
    /\ Apply(w)
    /\ op' = ConnOp("create_offer", rand_id, 0, w.result, w.notes, << >>)
    /\ UNCHANGED <<pool, CONNS, CBS, chunk_list, chunkVars>>
    /\ UNCHANGED swarmVars

AnswerOffer(rand_id, offer) ==
    LET w == webrtc_answer_offer(World, rand_id, offer) IN
    /\ Apply(w)
    /\ op' = ConnOp("answer_offer", rand_id, offer, w.result, w.notes, << >>)
    /\ UNCHANGED <<pool, CONNS, CBS, chunk_list, chunkVars>>
    /\ UNCHANGED swarmVars

AcceptAnswer(rand_id, answer) ==
    LET w == webrtc_accept_answer(World, rand_id, answer) IN
    /\ Apply(w)
    /\ op' = ConnOp("accept_answer", rand_id, answer, w.result, w.notes, << >>)
    /\ UNCHANGED <<pool, CONNS, CBS, chunk_list, chunkVars>>
    /\ UNCHANGED swarmVars

Close(rand_id) ==
    LET w == close(World, rand_id) IN
    /\ Apply(w)
    /\ op' = ConnOp("close", rand_id, 0, w.result, w.notes, << >>)
    /\ UNCHANGED <<pool, CONNS, CBS, chunk_list, chunkVars>>
    /\ UNCHANGED swarmVars

WaitForDataChannelOpen(rand_id) ==
    /\ op' = ConnOp("wait_for_data_channel_open", rand_id, 0,
                    webrtc_wait_for_data_channel_open(rand_id), << >>, << >>)
    /\ UNCHANGED <<transportVars, chunk_list, chunkVars>>
    /\ UNCHANGED swarmVars

Deliver(rand_id, r) ==
    /\ chunk_list' = IF r.remote = None THEN chunk_list
                     ELSE [chunk_list EXCEPT ![r.remote] = r.chunk_list]
    /\ op' = ConnOp("send_message", rand_id, r.remote, r.result, << >>, r.calls)
    /\ UNCHANGED transportVars

SendMessage(rand_id, msg) ==
    /\ Deliver(rand_id, send_message(rand_id, msg))
    /\ UNCHANGED chunkVars
    /\ UNCHANGED swarmVars

\* ------------------------------------------------------ the two-node world

ChunkIds == {1, 2}

\* A MessagePayload carrying a CustomMessage.
CustomPayload(destination, session_ok, tx_ok, nonce, body) ==
    [destination |-> destination, session_ok |-> session_ok, tx_ok |-> tx_ok,
     nonce |-> nonce, origin |-> 0, ttl_hops |-> DefaultTtl, relay |-> << >>,
     data |-> custom_message(body)]

\* The messages nodes send each other in Spec: a verified payload for each
\* DID, one with a bad transaction signature, one that is no envelope.
Wire ==
    {to_bincode(CustomPayload(d, TRUE, TRUE, 0, <<7>>)) : d \in Did}
    \cup {to_bincode(CustomPayload(2, TRUE, FALSE, 0, <<7>>)), <<9>>}

\* No swarm is attached to the transports: nothing collected, no event
\* channel, no PeerRing; every send_message runs without delay.
NoSwarm ==
    /\ msgs = << >>
    /\ events = << >>
    /\ journal = << >>
    /\ ring = << >>
    /\ links = { }
    /\ gone = { }
    /\ ticks = << >>
    /\ inflight = { }
    /\ stopped = { }
    /\ handler = << >>

NoOp == Op("none", None, 0, "", 0, "Unspecified", "Ok", << >>, << >>)

Init ==
    /\ conns = << >>
    /\ pool = [did \in Did |-> [cid \in {DidToString(d) : d \in Cids(did)} |-> None]]
    /\ CONNS = { }
    /\ CBS = { }
    /\ observed = << >>
    /\ chunk_list = << >>
    /\ todo = { }
    /\ sending = [id \in ChunkIds |-> << >>]
    /\ emitted = [id \in ChunkIds |-> << >>]
    /\ delivered = [id \in ChunkIds |-> 0]
    /\ op = NoOp
    /\ NoSwarm

Next ==
    \/ \E did \in Did : \E cid \in DOMAIN pool[did] : NewConnection(did, cid)
    \/ \E did \in Did : \E cid \in DOMAIN pool[did] :
          CloseConnection(did, cid)
    \/ \E rand_id \in 1..Len(conns) : CreateOffer(rand_id)
    \/ \E rand_id \in 1..Len(conns) : \E offer \in Sdps(rand_id) :
          AnswerOffer(rand_id, offer)
    \/ \E rand_id \in 1..Len(conns) : \E answer \in Sdps(rand_id) :
          AcceptAnswer(rand_id, answer)
    \/ \E rand_id \in 1..Len(conns) : Close(rand_id)
    \/ \E rand_id \in 1..Len(conns) : WaitForDataChannelOpen(rand_id)
    \/ \E rand_id \in 1..Len(conns) : \E msg \in Wire :
          SendMessage(rand_id, msg)

Spec == Init /\ [][Next]_vars

\* ------------------------------------------- one connection, chunked input

\* The connection of node 1 to node 2 and back after create_offer,
\* answer_offer, accept_answer.
Established ==
    /\ conns = << [did |-> 1, cid |-> DidToString(2),
                   webrtc_connection_state |-> "Connected", remote_rand_id |-> 2],
                  [did |-> 2, cid |-> DidToString(1),
                   webrtc_connection_state |-> "Connected", remote_rand_id |-> 1] >>
    /\ pool = [did \in Did |-> [cid \in {DidToString(d) : d \in Cids(did)} |-> did]]
    /\ CONNS = {1, 2}
    /\ CBS = { [rand_id |-> 1, did |-> 1, cid |-> DidToString(2)],
               [rand_id |-> 2, did |-> 2, cid |-> DidToString(1)] }
    /\ observed = <<"Connected", "Connected">>

Sender == 1
Receiver == 2

\* The byte strings handed to the chunk codec: every length 1..MaxLen, and
\* the envelopes of custom payloads for either DID with each nonce.
Pattern(n) == [i \in 1..n |-> i]
Payloads == {to_bincode(CustomPayload(d, TRUE, TRUE, nonce, <<7>>)) : d \in Did, nonce \in 0..2}
Strings(id) ==
    IF id = 1 THEN {Pattern(n) : n \in 1..MaxLen} \cup Payloads
    ELSE {Pattern(MaxLen), to_bincode(CustomPayload(Receiver, TRUE, TRUE, 0, <<7>>))}

\* The envelope of a fragment: a payload whose message is Message::Chunk. The
\* envelopes of chunk id 1 are addressed to the receiver, those of the other
\* ids to the sender's own DID.
ChunkPayload(chunk, tx_ok, nonce) ==
    [destination |-> IF chunk.id = 1 THEN Receiver ELSE Sender,
     session_ok |-> TRUE, tx_ok |-> tx_ok, nonce |-> nonce,
     origin |-> Sender, ttl_hops |-> DefaultTtl, relay |-> << >>,
     data |-> chunk_message(chunk)]
Fragments(snd) ==
    UNION { {to_bincode(ChunkPayload(c, TRUE, 0)) : c \in split(snd[id], id)} : id \in ChunkIds }

\* What else arrives on the connection: the messages of Wire, custom payloads
\* the application refuses, and copies of the first fragments with a bad
\* transaction signature or a nonce whose validation fails.
Noise(snd) ==
    Wire
    \cup {to_bincode(CustomPayload(Receiver, TRUE, TRUE, nonce, <<8>>)) : nonce \in 1..2}
    \cup UNION { { to_bincode(ChunkPayload(c, FALSE, 0)), to_bincode(ChunkPayload(c, TRUE, 1)) }
                 : c \in {f \in split(snd[1], 1) : f.index = 0} }

InitChunk ==
    /\ Established
    /\ chunk_list = << { }, { } >>
    /\ sending \in [ChunkIds -> UNION {Strings(id) : id \in ChunkIds}]
    /\ \A id \in ChunkIds : sending[id] \in Strings(id)
    /\ todo = Fragments(sending)
    /\ emitted = [id \in ChunkIds |-> << >>]
    /\ delivered = [id \in ChunkIds |-> 0]
    /\ op = NoOp
    /\ NoSwarm

\* The reassembler's output and the on_inbound call of the nested on_message.
Track(r) ==
    IF Len(r.calls) >= 2
    THEN /\ emitted' = [emitted EXCEPT ![r.calls[1].chunk_id] = Append(@, r.calls[2].msg)]
         /\ delivered' = [delivered EXCEPT ![r.calls[1].chunk_id] =
                              @ + (IF r.calls[2].inbound # "NotInvoked" THEN 1 ELSE 0)]
    ELSE UNCHANGED <<emitted, delivered>>

\* What the receiver's callback has done for the fragments of a chunk id:
\* the DataChannelMessage events sent and the on_validate calls made.
Counted(id) ==
    IF id \in DOMAIN journal THEN journal[id] ELSE [events |-> 0, validated |-> 0]
Count(calls) ==
    [id \in ChunkIds |->
        IF calls # << >> /\ calls[1].chunk_id = id
        THEN [events |-> Counted(id).events
                            + Cardinality({i \in DOMAIN calls : calls[i].enqueued}),
              validated |-> Counted(id).validated
                            + Cardinality({i \in DOMAIN calls :
                                              calls[i].validate # "NotInvoked"})]
        ELSE Counted(id)]

\* The sender sends a fragment still missing at the receiver.
SendFragment(msg) ==
    LET r == send_message(Sender, msg) IN
    /\ Deliver(Sender, r)
    /\ Track(r)
    /\ todo' = IF r.calls # << >> /\ r.calls[1].chunk # "Untouched" THEN todo \ {msg} ELSE todo
    /\ journal' = Count(r.calls)
    /\ UNCHANGED sending
    /\ UNCHANGED <<msgs, events, ring, links, gone, ticks, inflight, stopped, handler>>

SendNoise(msg) ==
    LET r == send_message(Sender, msg) IN
    /\ Deliver(Sender, r)
    /\ Track(r)
    /\ UNCHANGED <<todo, sending>>
    /\ UNCHANGED swarmVars

NextChunk ==
    \/ \E msg \in todo : SendFragment(msg)
    \/ \E msg \in Noise(sending) : SendNoise(msg)

SpecChunk == InitChunk /\ [][NextChunk]_vars

\* ------------------------------ one connection, a payload that is a fragment

\* The payload in transfer under chunk id 1 is itself the envelope of a
\* fragment, as a sender makes it that splits what it was handed without
\* looking into it; a short string is in transfer under chunk id 2.
InitNested ==
    /\ Established
    /\ chunk_list = << { }, { } >>
    /\ sending \in [ChunkIds -> {to_bincode(ChunkPayload(c, TRUE, 0)) :
                                    c \in split(Pattern(MaxLen), 1)} \cup {Pattern(1)}]
    /\ sending[1] # Pattern(1)
    /\ sending[2] = Pattern(1)
    /\ todo = Fragments(sending)
    /\ emitted = [id \in ChunkIds |-> << >>]
    /\ delivered = [id \in ChunkIds |-> 0]
    /\ op = NoOp
    /\ NoSwarm

SpecNested == InitNested /\ [][NextChunk]_vars

\* ------------------------------ one connection, two payloads on one chunk id

\* Most assembled payloads recorded per chunk id before senders stop.
MaxEmit == 2

\* The byte strings of the second payload: the length of Pattern(n), other bytes.
Shifted(n) == [i \in 1..n |-> 10 + i]

\* The fragment envelopes of both payloads, all carrying chunk id 1.
Colliding(snd) ==
    UNION { {to_bincode(ChunkPayload(c, TRUE, 0)) : c \in split(snd[id], 1)} : id \in ChunkIds }

\* Two payloads of several fragments each, whose senders drew the same chunk
\* id, are in transfer on the established connection.
InitCollide ==
    /\ Established
    /\ chunk_list = << { }, { } >>
    /\ sending \in [ChunkIds -> {Pattern(n) : n \in 1..MaxLen} \cup {Shifted(n) : n \in 1..MaxLen}]
    /\ sending[1] \in {Pattern(n) : n \in (TRANSPORT_MTU + 1)..MaxLen}
    /\ sending[2] \in {Shifted(n) : n \in (TRANSPORT_MTU + 1)..MaxLen}
    /\ todo = Colliding(sending)
    /\ emitted = [id \in ChunkIds |-> << >>]
    /\ delivered = [id \in ChunkIds |-> 0]
    /\ op = NoOp
    /\ NoSwarm

\* A fragment the receiver already accepted is delivered again.
Redeliver(msg) ==
    LET r == send_message(Sender, msg) IN
    /\ msg \notin todo
    /\ \A id \in ChunkIds : Len(emitted[id]) < MaxEmit
    /\ Deliver(Sender, r)
    /\ Track(r)
    /\ UNCHANGED <<todo, sending>>
    /\ UNCHANGED swarmVars

NextCollide ==
    \/ \E msg \in todo : SendFragment(msg)
    \/ \E msg \in Colliding(sending) : Redeliver(msg)

SpecCollide == InitCollide /\ [][NextCollide]_vars

\* ---------------------------------------------------------------- PeerRing

\* Identifiers have RingBits bits; ring arithmetic is modulo 2^RingBits.
RingBits == 2
RingSize == 2 ^ RingBits
Ring == 0..(RingSize - 1)
\* dht_succ_max: the length bound of the successor list.
SUCC_MAX == 3
\* Option<Did>::None of predecessor and finger entries.
NoDid == RingSize

\* Clockwise distance from a to b.
distance(a, b) == (b - a + RingSize) % RingSize
\* x lies clockwise-between a and b, in the open interval (a, b).
between(a, x, b) == 0 < distance(a, x) /\ distance(a, x) < distance(a, b)
\* x lies in (a, b], closed on b.
between_closed(a, x, b) == 0 < distance(a, x) /\ distance(a, x) <= distance(a, b)
\* successor-of-offset: local_did + 2^i.
offset(did, i) == (did + 2 ^ i) % RingSize

Fingers == 0..(RingBits - 1)

\* PeerRing::new_with_storage(did, succ_max, storage)
new_with_storage(did, succ_max) ==
    [local_did |-> did, succ_max |-> succ_max, successor_list |-> << >>,
     predecessor |-> NoDid, finger_table |-> [i \in Fingers |-> NoDid], fix_index |-> 0]
\* The PeerRing of a swarm built without dht_succ_max.
PeerRing(did) == new_with_storage(did, SUCC_MAX)

\* The DIDs of a sequence in the order of their clockwise distance from did,
\* the first `n` of them.
RECURSIVE sorted_from(_, _, _)
sorted_from(did, dids, n) ==
    IF dids = { } \/ n = 0 THEN << >>
    ELSE LET first == CHOOSE d \in dids : \A e \in dids : distance(did, d) <= distance(did, e)
         IN <<first>> \o sorted_from(did, dids \ {first}, n - 1)
Range(seq) == {seq[i] : i \in DOMAIN seq}

\* join that puts the peer at the end of the successor list.
join_at_the_end(r, peer_did) ==
    IF peer_did = r.local_did THEN r
    ELSE [r EXCEPT
            !.successor_list =
                LET list == SelectSeq(r.successor_list, LAMBDA d : d # peer_did)
                                \o <<peer_did>>
                IN SubSeq(list, 1, Min(r.succ_max, Len(list)))]

\* PeerRing::join: the peer enters the successor list, kept sorted by
\* clockwise distance and cut to succ_max, and every finger entry for which
\* it is the first known DID at or clockwise of the entry's offset.
join(r, peer_did) ==
    IF peer_did = r.local_did THEN r
    ELSE [r EXCEPT
            !.successor_list =
                sorted_from(r.local_did, Range(r.successor_list) \cup {peer_did}, r.succ_max),
            !.finger_table =
                [i \in Fingers |->
                    IF r.finger_table[i] = NoDid
                       \/ distance(offset(r.local_did, i), peer_did)
                            < distance(offset(r.local_did, i), r.finger_table[i])
                    THEN peer_did ELSE r.finger_table[i]]]

\* leave that forgets the finger table.
leave_keeping_fingers(r, peer_did) ==
    [r EXCEPT
        !.successor_list = SelectSeq(r.successor_list, LAMBDA d : d # peer_did),
        !.predecessor = IF r.predecessor = peer_did THEN NoDid ELSE r.predecessor]

\* PeerRing::leave: the peer is removed from all structures.
leave(r, peer_did) ==
    [r EXCEPT
        !.successor_list = SelectSeq(r.successor_list, LAMBDA d : d # peer_did),
        !.predecessor = IF r.predecessor = peer_did THEN NoDid ELSE r.predecessor,
        !.finger_table = [i \in Fingers |->
                             IF r.finger_table[i] = peer_did THEN NoDid ELSE r.finger_table[i]]]

\* notify that accepts every claim of another peer.
notify_accepting_all(r, peer_did) ==
    IF peer_did = r.local_did THEN r ELSE [r EXCEPT !.predecessor = peer_did]

\* PeerRing::notify: a peer claims to be our predecessor.
notify(r, peer_did) ==
    IF peer_did = r.local_did THEN r
    ELSE IF r.predecessor = NoDid \/ between(r.predecessor, peer_did, r.local_did)
    THEN [r EXCEPT !.predecessor = peer_did]
    ELSE r

\* The finger indices whose entry lies strictly clockwise-between local_did
\* and target.
preceding_fingers(r, target) ==
    {i \in Fingers : /\ r.finger_table[i] # NoDid
                     /\ between(r.local_did, r.finger_table[i], target)}

\* PeerRing::closest_preceding_finger: the highest-index entry.
closest_preceding_finger(r, target) ==
    r.finger_table[CHOOSE i \in preceding_fingers(r, target) :
                      \A j \in preceding_fingers(r, target) : i >= j]

\* find_successor with the successor's interval open at the successor.
find_successor_open_at_successor(r, target) ==
    IF target = r.local_did
       \/ (r.predecessor # NoDid /\ between_closed(r.predecessor, target, r.local_did))
    THEN [kind |-> "Self", did |-> r.local_did]
    ELSE IF r.successor_list # << >>
            /\ between(r.local_did, target, r.successor_list[1])
    THEN [kind |-> "Peer", did |-> r.successor_list[1]]
    ELSE IF preceding_fingers(r, target) # { }
    THEN [kind |-> "Forward", did |-> closest_preceding_finger(r, target)]
    ELSE [kind |-> "RoutingUnreachable", did |-> NoDid]

\* PeerRing::find_successor. successor_list[0] of the code is successor_list[1]
\* of a TLA+ sequence.
find_successor(r, target) ==
    IF target = r.local_did
       \/ (r.predecessor # NoDid /\ between_closed(r.predecessor, target, r.local_did))
    THEN [kind |-> "Self", did |-> r.local_did]
    ELSE IF r.successor_list # << >>
            /\ between_closed(r.local_did, target, r.successor_list[1])
    THEN [kind |-> "Peer", did |-> r.successor_list[1]]
    ELSE IF preceding_fingers(r, target) # { }
    THEN [kind |-> "Forward", did |-> closest_preceding_finger(r, target)]
    ELSE [kind |-> "RoutingUnreachable", did |-> NoDid]

\* -------------------------------------------------------------- stabilizer

Peers == DOMAIN ring
\* The state of the connection between two peers.
connection_state(lk, a, b) ==
    IF {a, b} \notin lk THEN "Unspecified"
    ELSE IF a \in gone \/ b \in gone THEN "Closed" ELSE "Connected"

\* The swarms as a stabilizer step finds them: every PeerRing and the
\* connections made so far.
Swarms == [ring |-> ring, links |-> links]

\* Ensure a connection between two peers: a handshake when there is none; the
\* event loop of either end handles Connected(peer) with join.
connect(w, a, b) ==
    IF a = b \/ {a, b} \in w.links \/ a \in gone \/ b \in gone \/ b \notin DOMAIN w.ring
    THEN w
    ELSE [ring |-> [w.ring EXCEPT ![a] = join(@, b), ![b] = join(@, a)],
          links |-> w.links \cup {{a, b}}]

\* The nodes of a path connected hop by hop.
RECURSIVE connect_path(_, _)
connect_path(w, path) ==
    IF Len(path) < 2 THEN w
    ELSE connect_path(connect(w, path[1], path[2]), Tail(path))

\* A payload can go from a to b: both ends are up.
reachable(w, a, b) == b \in DOMAIN w.ring /\ a \notin gone /\ b \notin gone

\* Following find_successor(target) from node `at`, resolving each Forward at
\* the node it names: the node found and the nodes visited, in order.
RECURSIVE resolve(_, _, _, _)
resolve(w, at, target, visited) ==
    LET found == find_successor(w.ring[at], target)
        here == Append(visited, at)
    IN IF found.kind = "Self" THEN [ok |-> TRUE, did |-> at, visited |-> here]
       ELSE IF found.kind = "Peer" THEN [ok |-> TRUE, did |-> found.did, visited |-> here]
       ELSE IF found.kind = "Forward"
               /\ found.did \notin Range(here)
               /\ reachable(w, at, found.did)
       THEN resolve(w, found.did, target, here)
       ELSE [ok |-> FALSE, did |-> NoDid, visited |-> here]

\* Step 1, stabilize: ask successor_list[0] for its predecessor and put it at
\* the front of the successor list when it lies between.
stabilize(w, did) ==
    LET r == w.ring[did] IN
    IF r.successor_list = << >> \/ ~reachable(w, did, r.successor_list[1]) THEN w
    ELSE LET succ == r.successor_list[1]
             w1 == connect(w, did, succ)
             x == w1.ring[succ].predecessor
             list == <<x>> \o SelectSeq(w1.ring[did].successor_list, LAMBDA d : d # x)
         IN IF x # NoDid /\ between(did, x, succ)
            THEN [w1 EXCEPT !.ring[did].successor_list =
                                SubSeq(list, 1, Min(r.succ_max, Len(list)))]
            ELSE w1

\* Step 2, notify: send notify(local_did) to successor_list[0].
send_notify(w, did) ==
    LET r == w.ring[did] IN
    IF r.successor_list = << >> \/ ~reachable(w, did, r.successor_list[1]) THEN w
    ELSE LET succ == r.successor_list[1]
             w1 == connect(w, did, succ)
         IN [w1 EXCEPT !.ring[succ] = notify(@, did)]

\* Step 3, fix fingers: one finger per tick, round-robin.
fix_fingers(w, did) ==
    LET i == w.ring[did].fix_index
        found == resolve(w, did, offset(did, i), << >>)
        w1 == connect_path(w, found.visited)
        next == [w1 EXCEPT !.ring[did].fix_index = (i + 1) % RingBits]
    IN IF found.ok THEN [next EXCEPT !.ring[did].finger_table[i] = found.did] ELSE next

\* Step 4, check predecessor: cleared when its connection is not Connected.
check_predecessor(w, did) ==
    IF w.ring[did].predecessor # NoDid
       /\ connection_state(w.links, did, w.ring[did].predecessor) # "Connected"
    THEN [w EXCEPT !.ring[did].predecessor = NoDid]
    ELSE w

\* A tick's last step that leaves the successors of closed connections in place.
reap_keeping_closed(w, did) == w

\* Step 5, reap connections: successors whose connection is Closed or Failed
\* are removed and a replacement is looked up with find_successor.
reap(w, did) ==
    LET dead == {d \in Range(w.ring[did].successor_list) :
                    connection_state(w.links, did, d) \in {"Closed", "Failed"}}
        kept == [w EXCEPT !.ring[did].successor_list = SelectSeq(@, LAMBDA d : d \notin dead)]
        found == resolve(kept, did, offset(did, 0), << >>)
        w1 == connect_path(kept, found.visited)
    IN IF dead = { } THEN w
       ELSE IF found.ok /\ found.did # did /\ reachable(w1, did, found.did)
       THEN connect([w1 EXCEPT !.ring[did] = join(@, found.did)], did, found.did)
       ELSE w1

\* A tick that does not ask the successor for its predecessor.
tick_without_stabilize(w, did) ==
    reap(check_predecessor(fix_fingers(send_notify(w, did), did), did), did)

\* One stabilizer tick of a node: the five steps in order.
tick(w, did) ==
    reap(check_predecessor(fix_fingers(send_notify(stabilize(w, did), did), did), did), did)

\* ------------------------------------------------------- a ring of peers

\* Most peers of a ring.
MaxPeers == 4
\* Stabilizer periods counted since the peers last changed.
MaxRounds == 3

Alive == Peers \ gone

\* The clockwise-nearest and the counter-clockwise-nearest other DID of a set.
nearest_clockwise(did, dids) ==
    CHOOSE d \in dids \ {did} : \A e \in dids \ {did} : distance(did, d) <= distance(did, e)
nearest_counter_clockwise(did, dids) ==
    CHOOSE d \in dids \ {did} : \A e \in dids \ {did} : distance(d, did) <= distance(e, did)

\* The ring has converged: every live peer's first successor and predecessor
\* are its neighbours among the live peers.
Converged ==
    \A did \in Alive :
        /\ ring[did].successor_list # << >>
        /\ ring[did].successor_list[1] = nearest_clockwise(did, Alive)
        /\ ring[did].predecessor = nearest_counter_clockwise(did, Alive)

\* The connections of scenario S3: every peer to its DID-neighbour by key sort.
KeySortNeighbours(dids) ==
    {{d, nearest_clockwise(d, dids)} : d \in {e \in dids : \E f \in dids : f > e}}

\* Connections between the peers of a set that leave no peer out of reach.
Pairs(dids) == {e \in SUBSET dids : Cardinality(e) = 2}
Graphs(dids) ==
    {g \in SUBSET Pairs(dids) :
        \A part \in (SUBSET dids) \ {{ }, dids} :
            \E e \in g : e \cap part # { } /\ e \ part # { }}

\* The Connected events of a node's connections, each handled by join.
RECURSIVE join_all(_, _)
join_all(r, dids) ==
    IF dids = { } THEN r
    ELSE LET d == CHOOSE d \in dids : TRUE IN join_all(join(r, d), dids \ {d})

RingOp(name, did, arg) == [name |-> name, did |-> did, arg |-> arg]

\* Peers that have established connections; no stabilizer has run yet.
InitRing ==
    /\ conns = << >>
    /\ pool = [did \in Did |-> [cid \in {DidToString(d) : d \in Cids(did)} |-> None]]
    /\ CONNS = { }
    /\ CBS = { }
    /\ observed = << >>
    /\ chunk_list = << >>
    /\ todo = { }
    /\ sending = [id \in ChunkIds |-> << >>]
    /\ emitted = [id \in ChunkIds |-> << >>]
    /\ delivered = [id \in ChunkIds |-> 0]
    /\ op = RingOp("none", NoDid, NoDid)
    /\ msgs = << >>
    /\ events = << >>
    /\ journal = << >>
    /\ inflight = { }
    /\ stopped = { }
    /\ handler = << >>
    /\ gone = { }
    /\ \E dids \in {ps \in SUBSET Ring : 0 \in ps /\ Cardinality(ps) \in 2..MaxPeers} :
          /\ \E g \in Graphs(dids) :
                /\ ticks = [done |-> { }, rounds |-> 0,
                            neighbours |-> KeySortNeighbours(dids) \subseteq g]
                /\ links = g
                /\ ring = [did \in dids |->
                              join_all(PeerRing(did), {d \in dids : {did, d} \in g})]

ringFrame ==
    <<conns, pool, CONNS, CBS, observed, chunk_list, chunkVars, msgs, events, journal, inflight,
      stopped, handler>>

\* The stabilizer task of a live node runs its tick of the period. Every
\* stabilizer has the same period (STABILIZE_TIMEOUT): a period is over when
\* every live node has ticked, in any order.
Tick(did) ==
    /\ did \in Alive
    /\ did \notin ticks.done
    /\ ring' = tick(Swarms, did).ring
    /\ links' = tick(Swarms, did).links
    /\ ticks' = IF ticks.done \cup {did} = Alive
                THEN [ticks EXCEPT !.done = { }, !.rounds = Min(@ + 1, MaxRounds)]
                ELSE [ticks EXCEPT !.done = @ \cup {did}]
    /\ op' = RingOp("tick", NoDid, NoDid)
    /\ UNCHANGED <<gone, ringFrame>>

\* Every connection of one peer of a converged ring is closed.
Churn(did) ==
    /\ gone = { }
    /\ Converged
    /\ Cardinality(Peers) > 2
    /\ did \in Peers
    /\ gone' = {did}
    /\ ticks' = [ticks EXCEPT !.done = { }, !.rounds = 0]
    /\ op' = RingOp("close", did, NoDid)
    /\ UNCHANGED <<ring, links, ringFrame>>

\* The event loop of a live node handles the Closed(peer) event of a closed
\* connection: the peer leaves the node's PeerRing.
OnClosed(did, peer) ==
    /\ did \in Alive
    /\ peer \in gone
    /\ {did, peer} \in links
    /\ ring[did] # leave(ring[did], peer)
    /\ ring' = [ring EXCEPT ![did] = leave(@, peer)]
    /\ op' = RingOp("leave", did, peer)
    /\ UNCHANGED <<links, gone, ticks, ringFrame>>

NextRing ==
    \/ \E did \in Ring : Tick(did)
    \/ \E did \in Ring : Churn(did)
    \/ \E did \in Ring : \E peer \in Ring : OnClosed(did, peer)

SpecRing == InitRing /\ [][NextRing]_vars

\* ------------------------------------------------- one PeerRing, any caller

\* The node whose PeerRing is followed.
Local == CHOOSE did \in DOMAIN ring : TRUE

\* The swarms as a stabilizer step of the node finds them: every other
\* identifier is a connected peer that answers x when asked for its predecessor.
Neighbourhood(x) ==
    [ring |-> [d \in Ring |-> IF d = Local THEN ring[Local]
                              ELSE [PeerRing(d) EXCEPT !.predecessor = x]],
     links |-> {{Local, d} : d \in Ring \ {Local}}]

\* A PeerRing as SwarmBuilder makes it, with dht_succ_max or without; the peer
\* at the next identifier may have closed its connections.
InitPeerRing ==
    /\ conns = << >>
    /\ pool = [did \in Did |-> [cid \in {DidToString(d) : d \in Cids(did)} |-> None]]
    /\ CONNS = { }
    /\ CBS = { }
    /\ observed = << >>
    /\ chunk_list = << >>
    /\ todo = { }
    /\ sending = [id \in ChunkIds |-> << >>]
    /\ emitted = [id \in ChunkIds |-> << >>]
    /\ delivered = [id \in ChunkIds |-> 0]
    /\ op = RingOp("none", NoDid, NoDid)
    /\ msgs = << >>
    /\ events = << >>
    /\ journal = << >>
    /\ inflight = { }
    /\ stopped = { }
    /\ handler = << >>
    /\ links = { }
    /\ ticks = [done |-> { }, rounds |-> 0, neighbours |-> FALSE]
    /\ \E did \in Ring : \E succ_max \in 1..SUCC_MAX :
          /\ ring = [d \in {did} |-> new_with_storage(did, succ_max)]
          /\ gone \in {{ }, {offset(did, 0)}}

peerRingFrame ==
    <<links, gone, ticks, conns, pool, CONNS, CBS, observed, chunk_list, chunkVars, msgs, events,
      inflight, stopped, handler>>

\* The journal keeps what the last leave or notify found: the structures that
\* named the peer, the predecessor.
Join(peer_did) ==
    /\ ring' = [ring EXCEPT ![Local] = join(@, peer_did)]
    /\ op' = RingOp("join", Local, peer_did)
    /\ journal' = << >>
    /\ UNCHANGED peerRingFrame

Leave(peer_did) ==
    /\ ring' = [ring EXCEPT ![Local] = leave(@, peer_did)]
    /\ op' = RingOp("leave", Local, peer_did)
    /\ journal' = <<[successor |-> peer_did \in Range(ring[Local].successor_list),
                     predecessor |-> peer_did = ring[Local].predecessor,
                     finger |-> \E i \in Fingers : ring[Local].finger_table[i] = peer_did]>>
    /\ UNCHANGED peerRingFrame

Notify(peer_did) ==
    /\ ring' = [ring EXCEPT ![Local] = notify(@, peer_did)]
    /\ op' = RingOp("notify", Local, peer_did)
    /\ journal' = <<[predecessor |-> ring[Local].predecessor]>>
    /\ UNCHANGED peerRingFrame

\* A stabilizer tick of the node; its successor answers x.
Stabilizer(x) ==
    /\ ring' = [ring EXCEPT ![Local] = tick(Neighbourhood(x), Local).ring[Local]]
    /\ op' = RingOp("tick", Local, x)
    /\ journal' = << >>
    /\ UNCHANGED peerRingFrame

NextPeerRing ==
    \/ \E peer_did \in Ring : Join(peer_did)
    \/ \E peer_did \in Ring : Leave(peer_did)
    \/ \E peer_did \in Ring : Notify(peer_did)
    \/ \E x \in Ring \cup {NoDid} : Stabilizer(x)

SpecPeerRing == InitPeerRing /\ [][NextPeerRing]_vars

\* ------------------------------------------------- three peers in a chain

\* Payloads the applications send in all.
MaxSends == 2

\* A (1), B (2) and C (3): A is connected to B, B to C, A and C are not.
RouteDid == {1, 2, 3}
\* A DID that belongs to no node.
Unreachable == 0
ChainLinks == {{1, 2}, {2, 3}}

\* The four connections of the chain after their handshakes.
Chain ==
    /\ conns = << [did |-> 1, cid |-> DidToString(2),
                   webrtc_connection_state |-> "Connected", remote_rand_id |-> 2],
                  [did |-> 2, cid |-> DidToString(1),
                   webrtc_connection_state |-> "Connected", remote_rand_id |-> 1],
                  [did |-> 2, cid |-> DidToString(3),
                   webrtc_connection_state |-> "Connected", remote_rand_id |-> 4],
                  [did |-> 3, cid |-> DidToString(2),
                   webrtc_connection_state |-> "Connected", remote_rand_id |-> 3] >>
    /\ pool = [did \in RouteDid |->
                  [cid \in {DidToString(d) : d \in RouteDid \ {did}} |->
                      IF \E i \in 1..4 : conns[i].did = did /\ conns[i].cid = cid
                      THEN CHOOSE i \in 1..4 : conns[i].did = did /\ conns[i].cid = cid
                      ELSE None]]
    /\ CONNS = 1..4
    /\ CBS = {[rand_id |-> i, did |-> conns[i].did, cid |-> conns[i].cid] : i \in 1..4}
    /\ observed = [i \in 1..4 |-> "Connected"]

\* Send path, steps 1 and 2: the signed payload of a send, origin = local_did.
new_payload(did, destination, nonce, ttl, body) ==
    [CustomPayload(destination, TRUE, TRUE, nonce, body) EXCEPT
        !.origin = did, !.ttl_hops = ttl]

\* Send path, step 3: the next hop of a payload leaving the node.
next_hop(r, payload) ==
    LET found == find_successor(r, payload.destination) IN
    IF found.kind \in {"Peer", "Forward"}
    THEN [kind |-> "Send", to |-> found.did, payload |-> payload]
    ELSE [kind |-> "RoutingUnreachable", to |-> NoDid, payload |-> payload]

\* The forward path without the test of the relay hop list.
route_without_loop_check(r, payload) ==
    LET hop == [payload EXCEPT !.relay = Append(@, r.local_did), !.ttl_hops = @ - 1] IN
    IF payload.destination = r.local_did
    THEN [kind |-> "Local", to |-> NoDid, payload |-> payload]
    ELSE IF hop.ttl_hops = 0
    THEN [kind |-> "TtlExpired", to |-> NoDid, payload |-> payload]
    ELSE next_hop(r, hop)

\* The forward path that forwards whatever ttl_hops is left.
route_without_ttl(r, payload) ==
    LET hop == [payload EXCEPT !.relay = Append(@, r.local_did), !.ttl_hops = @ - 1] IN
    IF payload.destination = r.local_did
    THEN [kind |-> "Local", to |-> NoDid, payload |-> payload]
    ELSE IF r.local_did \in Range(payload.relay)
    THEN [kind |-> "LoopDetected", to |-> NoDid, payload |-> payload]
    ELSE next_hop(r, hop)

\* Forward path, steps 4 to 7, of the event loop for a payload that passed
\* on_message: nothing more for a local destination; a payload whose relay
\* list holds local_did is dropped; local_did is appended, ttl_hops
\* decremented, and the payload dropped at 0; else the next hop is computed.
route(r, payload) ==
    LET hop == [payload EXCEPT !.relay = Append(@, r.local_did), !.ttl_hops = @ - 1] IN
    IF payload.destination = r.local_did
    THEN [kind |-> "Local", to |-> NoDid, payload |-> payload]
    ELSE IF r.local_did \in Range(payload.relay)
    THEN [kind |-> "LoopDetected", to |-> NoDid, payload |-> payload]
    ELSE IF hop.ttl_hops = 0
    THEN [kind |-> "TtlExpired", to |-> NoDid, payload |-> payload]
    ELSE next_hop(r, hop)

\* Send path, step 4: the payload encoded and handed to the connection to the
\* next hop, whose send_message runs the remote swarm's on_message.
transmit(did, decision) ==
    LET cid == DidToString(decision.to) IN
    IF decision.kind # "Send" THEN [result |-> decision.kind, calls |-> << >>, remote |-> None,
                                    chunk_list |-> { }]
    ELSE IF cid \notin DOMAIN pool[did] \/ connection(did, cid) = None
    THEN [result |-> "RoutingUnreachable", calls |-> << >>, remote |-> None, chunk_list |-> { }]
    ELSE send_message(connection(did, cid), to_bincode(decision.payload))

\* What a transmission leaves at the remote swarm: the chunk buffer, the
\* DataChannelMessage event on_message enqueued, the payload its on_inbound
\* collected.
Received(r) ==
    LET to == conns[r.remote].did
        call == r.calls[1]
    IN IF r.remote = None \/ r.calls = << >>
       THEN UNCHANGED <<chunk_list, events, msgs>>
       ELSE /\ chunk_list' = [chunk_list EXCEPT ![r.remote] = r.chunk_list]
            /\ events' = IF call.enqueued THEN [events EXCEPT ![to] = Append(@, call.msg)]
                         ELSE events
            /\ msgs' = IF call.inbound = "NotInvoked" THEN msgs
                       ELSE [msgs EXCEPT ![to] = Append(@, from_bincode(call.msg).payload)]

RouteOp(name, did, decision, result) ==
    [name |-> name, did |-> did, decision |-> decision, result |-> result]

\* The journal's entries of payloads that entered the network.
Created == SelectSeq(journal, LAMBDA e : e.kind \in {"created", "crafted"})

InitRoute ==
    /\ Chain
    /\ chunk_list = [i \in 1..4 |-> { }]
    /\ todo = { }
    /\ sending = [id \in ChunkIds |-> << >>]
    /\ emitted = [id \in ChunkIds |-> << >>]
    /\ delivered = [id \in ChunkIds |-> 0]
    /\ op = RouteOp("none", NoDid, [kind |-> "None"], "Ok")
    /\ msgs = [did \in RouteDid |-> << >>]
    /\ events = [did \in RouteDid |-> << >>]
    /\ journal = << >>
    /\ inflight = { }
    /\ stopped = { }
    /\ handler = << >>
    /\ links = ChainLinks
    /\ ring = [did \in RouteDid |->
                  join_all(PeerRing(did), {d \in RouteDid : {did, d} \in links})]
    /\ gone = { }
    /\ ticks = << >>

routeFrame == <<transportVars, chunkVars, ring, links, gone, ticks, inflight, stopped, handler>>

\* The application of a node sends a message to another DID. Its body is the
\* number of the message.
Send(did, destination, nonce, ttl) ==
    LET payload == new_payload(did, destination, nonce, ttl, <<Len(Created) + 1>>)
        decision == next_hop(ring[did], payload)
        r == transmit(did, decision)
    IN /\ Len(Created) < MaxSends
       /\ destination # did
       /\ Received(r)
       /\ journal' = Append(journal, [kind |-> "created", by |-> did, payload |-> payload])
       /\ op' = RouteOp("send_message", did, decision, r.result)
       /\ UNCHANGED routeFrame

\* A handcrafted envelope for a DID of no node, its relay list already
\* filled, is handed to a connection of the node.
SendCrafted(rand_id, relay) ==
    LET did == conns[rand_id].did
        payload == [new_payload(did, Unreachable, 0, DefaultTtl, <<Len(Created) + 1>>)
                       EXCEPT !.relay = relay]
        r == send_message(rand_id, to_bincode(payload))
    IN /\ Len(Created) < MaxSends
       /\ Received(r)
       /\ journal' = Append(journal, [kind |-> "crafted", by |-> did, payload |-> payload])
       /\ op' = RouteOp("send_crafted", did,
                        [kind |-> "Send", to |-> conns[conns[rand_id].remote_rand_id].did,
                         payload |-> payload], r.result)
       /\ UNCHANGED routeFrame

\* The event loop of a node takes the next DataChannelMessage event off its
\* channel and routes the payload.
HandleEvent(did) ==
    LET payload == from_bincode(Head(events[did])).payload
        decision == route(ring[did], payload)
        r == transmit(did, decision)
        to == conns[r.remote].did
        call == r.calls[1]
        rest == [events EXCEPT ![did] = Tail(@)]
    IN /\ events[did] # << >>
       /\ IF r.remote = None \/ r.calls = << >>
          THEN /\ events' = rest
               /\ UNCHANGED <<chunk_list, msgs>>
          ELSE /\ chunk_list' = [chunk_list EXCEPT ![r.remote] = r.chunk_list]
               /\ events' = IF call.enqueued THEN [rest EXCEPT ![to] = Append(@, call.msg)]
                            ELSE rest
               /\ msgs' = IF call.inbound = "NotInvoked" THEN msgs
                          ELSE [msgs EXCEPT ![to] = Append(@, from_bincode(call.msg).payload)]
       /\ journal' = IF decision.kind = "Send"
                     THEN Append(journal, [kind |-> "forwarded", by |-> did, payload |-> payload])
                     ELSE journal
       /\ op' = RouteOp("forward", did, decision, r.result)
       /\ UNCHANGED routeFrame

\* The relay lists of handcrafted envelopes: every arrangement of two or of
\* all of the nodes.
RECURSIVE Arrangements(_)
Arrangements(dids) ==
    IF dids = { } THEN {<< >>}
    ELSE UNION {{<<d>> \o a : a \in Arrangements(dids \ {d})} : d \in dids}
CraftedRelays == UNION {Arrangements(ds) : ds \in {d \in SUBSET RouteDid : Cardinality(d) >= 2}}

NextRoute ==
    \/ \E did \in RouteDid : \E destination \in RouteDid \cup {Unreachable} :
          \E nonce \in 0..1 : \E ttl \in 1..DefaultTtl :
             Send(did, destination, nonce, ttl)
    \/ \E rand_id \in 1..Len(conns) : \E relay \in CraftedRelays :
          SendCrafted(rand_id, relay)
    \/ \E did \in RouteDid : HandleEvent(did)

SpecRoute == InitRoute /\ [][NextRoute]_vars

\* ------------------------------------------- one connection, sends in flight

\* SEND_MESSAGE_DELAY is true: every send_message first sleeps in random_delay
\* for DUMMY_DELAY_MIN to DUMMY_DELAY_MAX milliseconds, so of the calls that
\* are asleep any one may be the next to go on. The journal numbers the calls
\* as they are made and keeps the order in which the remote callback got them.
InitDelay ==
    /\ Established
    /\ chunk_list = << { }, { } >>
    /\ todo = { }
    /\ sending = [id \in ChunkIds |-> << >>]
    /\ emitted = [id \in ChunkIds |-> << >>]
    /\ delivered = [id \in ChunkIds |-> 0]
    /\ op = NoOp
    /\ NoSwarm

Issued == SelectSeq(journal, LAMBDA e : e.kind = "issued")
Handed == SelectSeq(journal, LAMBDA e : e.kind = "handed")

\* send_message is called and its future goes to sleep in random_delay.
SendMessageCalled(rand_id, msg) ==
    LET call == Len(Issued) + 1 IN
    /\ call <= MaxSends
    /\ inflight' = inflight \cup {[call |-> call, rand_id |-> rand_id, msg |-> msg]}
    /\ journal' = Append(journal, [kind |-> "issued", call |-> call, rand_id |-> rand_id])
    /\ op' = ConnOp("send_message_called", rand_id, call, "Pending", << >>, << >>)
    /\ UNCHANGED <<transportVars, chunk_list, chunkVars, msgs, events, ring, links, gone, ticks,
                   stopped, handler>>

\* The delay of a call is over: the rest of send_message runs.
RandomDelayOver(task) ==
    LET r == send_message(task.rand_id, task.msg) IN
    /\ Deliver(task.rand_id, r)
    /\ inflight' = inflight \ {task}
    /\ journal' = IF r.remote = None THEN journal
                  ELSE Append(journal, [kind |-> "handed", call |-> task.call,
                                        rand_id |-> task.rand_id])
    /\ UNCHANGED <<chunkVars, msgs, events, ring, links, gone, ticks, stopped, handler>>

NextDelay ==
    \/ \E rand_id \in 1..Len(conns) : \E msg \in Wire : SendMessageCalled(rand_id, msg)
    \/ \E task \in inflight : RandomDelayOver(task)

SpecDelay == InitDelay /\ [][NextDelay]_vars

\* ------------------------------------------- two nodes and their event loops

\* Most events waiting in the event channel of a node.
MaxQueue == 2

\* TransportEvent::Connected(did), Closed(did), DataChannelMessage(bytes)
TransportEvent(kind, peer, msg) == [kind |-> kind, peer |-> peer, msg |-> msg]

\* The channels after the sends that on_peer_connection_state_change made for
\* the notifications of an operation, in their order.
RECURSIVE SentByNotes(_, _)
SentByNotes(ev, notes) ==
    IF notes = << >> THEN ev
    ELSE LET n == Head(notes)
             did == CallbackOf(n.rand_id).did
         IN SentByNotes(IF n.event = "None" THEN ev
                        ELSE [ev EXCEPT ![did] = Append(@, TransportEvent(n.event, n.peer, << >>))],
                        Tail(notes))

\* The channel of a node after the sends that its on_message calls made.
RECURSIVE SentByCalls(_, _)
SentByCalls(queue, calls) ==
    IF calls = << >> THEN queue
    ELSE SentByCalls(IF Head(calls).enqueued
                     THEN Append(queue, TransportEvent("DataChannelMessage", NoDid,
                                                       Head(calls).msg))
                     ELSE queue,
                     Tail(calls))

\* The messages of this world: verified custom payloads for the node at the
\* other end of the connection, which its on_inbound takes (nonce 0) or, at
\* node 2, refuses (nonce 2).
Mail(rand_id) ==
    {to_bincode(CustomPayload(DidFromStr(conns[rand_id].cid).did, TRUE, TRUE, nonce, <<7>>)) :
        nonce \in {0, 2}}

\* Each node has made its connection to the other and runs its event loop.
InitEvents ==
    /\ conns = << [did |-> 1, cid |-> DidToString(2),
                   webrtc_connection_state |-> "New", remote_rand_id |-> None],
                  [did |-> 2, cid |-> DidToString(1),
                   webrtc_connection_state |-> "New", remote_rand_id |-> None] >>
    /\ pool = [did \in Did |-> [cid \in {DidToString(d) : d \in Cids(did)} |-> did]]
    /\ CONNS = {1, 2}
    /\ CBS = { [rand_id |-> 1, did |-> 1, cid |-> DidToString(2)],
               [rand_id |-> 2, did |-> 2, cid |-> DidToString(1)] }
    /\ observed = <<"Unspecified", "Unspecified">>
    /\ chunk_list = << { }, { } >>
    /\ todo = { }
    /\ sending = [id \in ChunkIds |-> << >>]
    /\ emitted = [id \in ChunkIds |-> << >>]
    /\ delivered = [id \in ChunkIds |-> 0]
    /\ op = NoOp
    /\ msgs = << >>
    /\ events = [did \in Did |-> << >>]
    /\ journal = << >>
    /\ ring = [did \in Did |-> PeerRing(did)]
    /\ links = { }
    /\ gone = { }
    /\ ticks = << >>
    /\ inflight = { }
    /\ stopped = { }
    /\ handler = << >>

eventsFrame ==
    <<pool, CONNS, CBS, chunkVars, msgs, journal, links, gone, ticks, inflight, handler>>

\* An operation on a connection whose state changes are notified.
Notified(name, rand_id, arg, w) ==
    /\ Apply(w)
    /\ events' = SentByNotes(events, w.notes)
    /\ \A did \in Did : Len(events'[did]) <= MaxQueue
    /\ op' = ConnOp(name, rand_id, arg, w.result, w.notes, << >>)
    /\ UNCHANGED <<chunk_list, ring, stopped, eventsFrame>>

OfferCreated(rand_id) ==
    Notified("create_offer", rand_id, 0, webrtc_create_offer(World, rand_id))
OfferAnswered(rand_id, offer) ==
    Notified("answer_offer", rand_id, offer, webrtc_answer_offer(World, rand_id, offer))
AnswerAccepted(rand_id, answer) ==
    Notified("accept_answer", rand_id, answer, webrtc_accept_answer(World, rand_id, answer))
Closed(rand_id) ==
    Notified("close", rand_id, 0, close(World, rand_id))

\* send_message on a connection; the remote on_message sends its event and
\* calls on_inbound.
MessageSent(rand_id, msg) ==
    LET r == send_message(rand_id, msg)
        to == conns[r.remote].did
    IN /\ r.remote # None
       /\ Deliver(rand_id, r)
       /\ events' = [events EXCEPT ![to] = SentByCalls(@, r.calls)]
       /\ Len(events'[to]) <= MaxQueue
       /\ UNCHANGED <<ring, stopped, chunkVars, msgs, journal, links, gone, ticks, inflight,
                      handler>>

\* The event loop of a node takes the next event off its channel: the peer
\* of Connected joins the PeerRing, the peer of Closed leaves it, the payload
\* of a DataChannelMessage, addressed to this node, needs no forwarding.
HandleTransportEvent(did) ==
    LET event == Head(events[did]) IN
    /\ did \notin stopped
    /\ events[did] # << >>
    /\ events' = [events EXCEPT ![did] = Tail(@)]
    /\ ring' = IF event.kind = "Connected" THEN [ring EXCEPT ![did] = join(@, event.peer)]
               ELSE IF event.kind = "Closed" THEN [ring EXCEPT ![did] = leave(@, event.peer)]
               ELSE ring
    /\ op' = Op("handle_event", None, did, "", event, "Unspecified", "Ok", << >>, << >>)
    /\ UNCHANGED <<conns, observed, chunk_list, stopped, eventsFrame>>

\* The swarm of a node shuts down: its event loop ends and drops the
\* receiving end of the channel with the events still in it.
Stop(did) ==
    /\ did \notin stopped
    /\ stopped' = stopped \cup {did}
    /\ events' = [events EXCEPT ![did] = << >>]
    /\ op' = Op("stop", None, did, "", 0, "Unspecified", "Ok", << >>, << >>)
    /\ UNCHANGED <<conns, observed, chunk_list, ring, eventsFrame>>

NextEvents ==
    \/ \E rand_id \in 1..Len(conns) : OfferCreated(rand_id)
    \/ \E rand_id \in 1..Len(conns) : \E offer \in Sdps(rand_id) : OfferAnswered(rand_id, offer)
    \/ \E rand_id \in 1..Len(conns) : \E answer \in Sdps(rand_id) :
          AnswerAccepted(rand_id, answer)
    \/ \E rand_id \in 1..Len(conns) : Closed(rand_id)
    \/ \E rand_id \in 1..Len(conns) : \E msg \in Mail(rand_id) : MessageSent(rand_id, msg)
    \/ \E did \in Did : HandleTransportEvent(did)
    \/ \E did \in Did : Stop(did)

SpecEvents == InitEvents /\ [][NextEvents]_vars

\* --------------------------------------------- a transport reports states

\* The cids a transport may report a state for: the cid the connection was
\* made with, and a cid that is no DID.
ReportedCids(rand_id) == {conns[rand_id].cid, "peer"}

\* The transport calls on_peer_connection_state_change(cid, s) of the
\* callback of a connection.
OnPeerConnectionStateChange(rand_id, cid, s) ==
    LET did == CallbackOf(rand_id).did
        note == on_peer_connection_state_change(rand_id, did, cid, s)
    IN /\ events' = IF note.event = "None" THEN events
                    ELSE [events EXCEPT ![did] =
                             Append(@, TransportEvent(note.event, note.peer, << >>))]
       /\ Len(events'[did]) <= MaxQueue
       /\ op' = Op("on_peer_connection_state_change", rand_id, did, cid, 0,
                   conns[rand_id].webrtc_connection_state, note.result, <<note>>, << >>)
       /\ UNCHANGED <<conns, observed, chunk_list, ring, stopped, eventsFrame>>

NextCallback ==
    \/ \E rand_id \in 1..Len(conns) : \E cid \in ReportedCids(rand_id) :
          \E s \in WebrtcConnectionState : OnPeerConnectionStateChange(rand_id, cid, s)
    \/ \E did \in Did : HandleTransportEvent(did)
    \/ \E did \in Did : Stop(did)

SpecCallback == InitEvents /\ [][NextCallback]_vars

\* ------------------------------------------- new_connection calls that race

\* Most new_connection calls made.
MaxCalls == 3

\* On the multi-threaded runtime several new_connection calls run at once.
\* A call touches the shared structures four times: it reads the pool, it
\* inserts into the pool, it inserts into CONNS, it inserts into CBS; between
\* two of these any other call may go on. The transports start empty;
\* `inflight` holds the calls under way, the journal the calls that returned,
\* in the order they returned.
Returned(task, result) ==
    /\ inflight' = inflight \ {task}
    /\ journal' = Append(journal, [call |-> task.call, did |-> task.did, cid |-> task.cid,
                                    rand_id |-> task.rand_id, at |-> task.pc,
                                    result |-> result])
    /\ op' = Op("new_connection", task.rand_id, task.did, task.cid, task.call, "Unspecified",
                result, << >>, << >>)
Moved(task, pc, rand_id) ==
    /\ inflight' = (inflight \ {task}) \cup {[task EXCEPT !.pc = pc, !.rand_id = rand_id]}
    /\ journal' = journal
    /\ op' = Op("new_connection_step", rand_id, task.did, task.cid, task.call, "Unspecified",
                "Pending", << >>, << >>)
raceFrame == <<chunkVars, msgs, events, ring, links, gone, ticks, stopped, handler>>

\* new_connection is called.
NewConnectionCalled(did, cid) ==
    LET call == Cardinality(inflight) + Len(journal) + 1 IN
    /\ call <= MaxCalls
    /\ inflight' = inflight \cup {[call |-> call, did |-> did, cid |-> cid, pc |-> "check",
                                     rand_id |-> None]}
    /\ op' = Op("new_connection_called", None, did, cid, call, "Unspecified", "Pending",
                << >>, << >>)
    /\ UNCHANGED <<transportVars, chunk_list, journal, raceFrame>>

\* The call looks at the connection the pool holds for cid.
ExistedConnChecked(task) ==
    LET existed_conn == connection(task.did, task.cid) IN
    /\ task.pc = "check"
    /\ IF /\ existed_conn # None
          /\ conns[existed_conn].webrtc_connection_state \in {"New", "Connecting", "Connected"}
       THEN Returned(task, "ConnectionAlreadyExists")
       ELSE Moved(task, "insert", None)
    /\ UNCHANGED <<transportVars, chunk_list, raceFrame>>

\* The insert of a call that takes no notice of what the pool holds.
SafelyInserted_over_live(task) ==
    LET conn_rand_id == Len(conns) + 1
        ins == safely_insert_over_live(pool[task.did], task.cid, conn_rand_id)
    IN /\ task.pc = "insert"
       /\ Len(conns) < MaxConns
       /\ conns' = Append(conns, DummyConnection(task.did, task.cid))
       /\ pool' = [pool EXCEPT ![task.did] = ins.pool]
       /\ observed' = Append(observed, "Unspecified")
       /\ chunk_list' = Append(chunk_list, { })
       /\ Moved(task, "CONNS", conn_rand_id)
       /\ UNCHANGED <<CONNS, CBS>>
       /\ UNCHANGED raceFrame

\* The call makes its DummyConnection and inserts it into the pool.
SafelyInserted(task) ==
    LET conn_rand_id == Len(conns) + 1
        ins == safely_insert(pool[task.did], task.cid, conn_rand_id)
    IN /\ task.pc = "insert"
       /\ IF ~ins.ok
          THEN /\ Returned(task, "ConnectionAlreadyExists")
               /\ UNCHANGED <<transportVars, chunk_list>>
          ELSE /\ Len(conns) < MaxConns
               /\ conns' = Append(conns, DummyConnection(task.did, task.cid))
               /\ pool' = [pool EXCEPT ![task.did] = ins.pool]
               /\ observed' = Append(observed, "Unspecified")
               /\ chunk_list' = Append(chunk_list, { })
               /\ Moved(task, "CONNS", conn_rand_id)
               /\ UNCHANGED <<CONNS, CBS>>
       /\ UNCHANGED raceFrame

\* The call puts connection(cid).upgrade() into CONNS under its rand_id.
ConnRegistered(task) ==
    /\ task.pc = "CONNS"
    /\ IF connection(task.did, task.cid) = None
       THEN /\ Returned(task, "ConnectionNotFound")
            /\ UNCHANGED CONNS
       ELSE IF upgrade(ConnectionRef(connection(task.did, task.cid))) # "Ok"
       THEN /\ Returned(task, "ConnectionReleased")
            /\ UNCHANGED CONNS
       ELSE /\ CONNS' = CONNS \cup {task.rand_id}
            /\ Moved(task, "CBS", task.rand_id)
    /\ UNCHANGED <<conns, pool, CBS, observed, chunk_list, raceFrame>>

\* The call puts the callback into CBS under its rand_id and returns.
CallbackRegistered(task) ==
    /\ task.pc = "CBS"
    /\ CBS' = CBS \cup {[rand_id |-> task.rand_id, did |-> task.did, cid |-> task.cid]}
    /\ Returned(task, "Ok")
    /\ UNCHANGED <<conns, pool, CONNS, observed, chunk_list, raceFrame>>

\* A connection whose new_connection has returned is closed.
CloseReturned(rand_id) ==
    /\ \A task \in inflight : task.rand_id # rand_id
    /\ conns[rand_id].webrtc_connection_state # "Closed"
    /\ Close(rand_id)

\* Another thread takes connection(cid) from the pool and creates an offer
\* on it.
PooledOfferCreated(did, cid) ==
    /\ connection(did, cid) # None
    /\ conns[connection(did, cid)].webrtc_connection_state = "New"
    /\ CreateOffer(connection(did, cid))

NextRace ==
    \/ \E did \in Did : \E cid \in DOMAIN pool[did] : NewConnectionCalled(did, cid)
    \/ \E did \in Did : \E cid \in DOMAIN pool[did] : PooledOfferCreated(did, cid)
    \/ \E task \in inflight : ExistedConnChecked(task)
    \/ \E task \in inflight : SafelyInserted(task)
    \/ \E task \in inflight : ConnRegistered(task)
    \/ \E task \in inflight : CallbackRegistered(task)
    \/ \E rand_id \in 1..Len(conns) : CloseReturned(rand_id)

SpecRace == Init /\ [][NextRace]_vars

\* --------------------------------------- operations of a connection that race

\* On the multi-threaded runtime the operations of the two ends of a
\* connection run at once. set_webrtc_connection_state holds the lock of the
\* state while it compares and stores, and calls the callback after it has
\* let the lock go; remote_conn() is looked up anew at every use. A call is
\* the list of the steps it has still to make.

\* Most calls of webrtc_accept_answer and close made.
MaxOps == 2

Store(conn, state) == [k |-> "store", conn |-> conn, state |-> state, arg |-> None]
Steps(name, arg) ==
    CASE name = "accept_answer" ->
            << Store("self", "Connected"),
               [k |-> "set_remote_rand_id", conn |-> "self", state |-> "Unspecified", arg |-> arg],
               Store("remote", "Connected") >>
      [] name = "close" ->
            << Store("self", "Closed"),
               [k |-> "unless_remote_closed", conn |-> "remote", state |-> "Closed",
                arg |-> None],
               Store("remote", "Disconnected"),
               Store("remote", "Closed") >>

\* The offerer has created its offer and the answerer has answered it.
InitNotify ==
    /\ conns = << [did |-> 1, cid |-> DidToString(2),
                   webrtc_connection_state |-> "Connecting", remote_rand_id |-> None],
                  [did |-> 2, cid |-> DidToString(1),
                   webrtc_connection_state |-> "Connecting", remote_rand_id |-> 1] >>
    /\ pool = [did \in Did |-> [cid \in {DidToString(d) : d \in Cids(did)} |-> did]]
    /\ CONNS = {1, 2}
    /\ CBS = { [rand_id |-> 1, did |-> 1, cid |-> DidToString(2)],
               [rand_id |-> 2, did |-> 2, cid |-> DidToString(1)] }
    /\ observed = <<"Connecting", "Connecting">>
    /\ chunk_list = << { }, { } >>
    /\ todo = { }
    /\ sending = [id \in ChunkIds |-> << >>]
    /\ emitted = [id \in ChunkIds |-> << >>]
    /\ delivered = [id \in ChunkIds |-> 0]
    /\ op = NoOp
    /\ NoSwarm

notifyFrame == <<pool, CONNS, CBS, chunk_list, chunkVars, msgs, events, ring, links, gone,
                 ticks, stopped, handler>>

\* The call goes on with the steps `rest`, or returns when none is left.
GoesOn(task, rest, name, target, result, notes) ==
    /\ inflight' = IF rest = << >> \/ result # "Ok" THEN inflight \ {task}
                   ELSE (inflight \ {task}) \cup {[task EXCEPT !.steps = rest]}
    /\ journal' = IF rest = << >> \/ result # "Ok"
                  THEN Append(journal, [call |-> task.call, name |-> task.name,
                                        rand_id |-> task.rand_id, result |-> result])
                  ELSE journal
    /\ op' = ConnOp(name, task.rand_id, target, result, notes, << >>)

\* webrtc_accept_answer or close is called on a connection.
Called(name, rand_id, arg) ==
    LET call == Cardinality(inflight) + Len(journal) + 1 IN
    /\ call <= MaxOps
    /\ inflight' = inflight \cup {[call |-> call, name |-> name, rand_id |-> rand_id,
                                     steps |-> Steps(name, arg)]}
    /\ op' = ConnOp(name \o "_called", rand_id, arg, "Pending", << >>, << >>)
    /\ UNCHANGED <<conns, observed, journal, notifyFrame>>

\* set_webrtc_connection_state under the lock: nothing more when the state
\* is the one the connection has, else the store, the notification to follow.
Stored(task) ==
    LET step == Head(task.steps)
        target == IF step.conn = "self" THEN task.rand_id
                  ELSE conns[task.rand_id].remote_rand_id
    IN /\ step.k = "store"
       /\ IF target = None \/ target \notin CONNS
          THEN /\ GoesOn(task, << >>, "store", None, "Panic", << >>)
               /\ UNCHANGED conns
          ELSE IF conns[target].webrtc_connection_state = step.state
          THEN /\ GoesOn(task, Tail(task.steps), "store", target, "Ok", << >>)
               /\ UNCHANGED conns
          ELSE /\ conns' = [conns EXCEPT ![target].webrtc_connection_state = step.state]
               /\ GoesOn(task, <<[k |-> "notify", conn |-> step.conn, state |-> step.state,
                                   arg |-> target]>> \o Tail(task.steps),
                         "store", target, "Ok", << >>)
       /\ UNCHANGED <<observed, notifyFrame>>

\* set_webrtc_connection_state after the lock: the callback of the
\* connection is told the state that was stored.
CallbackTold(task) ==
    LET step == Head(task.steps) IN
    /\ step.k = "notify"
    /\ IF ~HasCallback(step.arg)
       THEN /\ GoesOn(task, << >>, "notify", step.arg, "Panic", << >>)
            /\ UNCHANGED observed
       ELSE /\ observed' = [observed EXCEPT ![step.arg] = step.state]
            /\ GoesOn(task, Tail(task.steps), "notify", step.arg, "Ok",
                      <<on_peer_connection_state_change(step.arg, CallbackOf(step.arg).did,
                                                        CallbackOf(step.arg).cid, step.state)>>)
    /\ UNCHANGED <<conns, notifyFrame>>

\* set_remote_rand_id in webrtc_accept_answer
RemoteSet(task) ==
    LET step == Head(task.steps) IN
    /\ step.k = "set_remote_rand_id"
    /\ conns' = [conns EXCEPT ![task.rand_id].remote_rand_id = step.arg]
    /\ GoesOn(task, Tail(task.steps), "set_remote_rand_id", step.arg, "Ok", << >>)
    /\ UNCHANGED <<observed, notifyFrame>>

\* close reads the state of the remote connection and is done when that is
\* Closed.
RemoteRead(task) ==
    LET step == Head(task.steps)
        remote == conns[task.rand_id].remote_rand_id
    IN /\ step.k = "unless_remote_closed"
       /\ IF remote = None \/ remote \notin CONNS
          THEN GoesOn(task, << >>, "remote_conn", None, "Panic", << >>)
          ELSE IF conns[remote].webrtc_connection_state = "Closed"
          THEN GoesOn(task, << >>, "remote_conn", remote, "Ok", << >>)
          ELSE GoesOn(task, Tail(task.steps), "remote_conn", remote, "Ok", << >>)
       /\ UNCHANGED <<conns, observed, notifyFrame>>

NextNotify ==
    \/ \E rand_id \in 1..Len(conns) : \E answer \in Sdps(rand_id) :
          Called("accept_answer", rand_id, answer)
    \/ \E rand_id \in 1..Len(conns) : Called("close", rand_id, None)
    \/ \E task \in inflight : Stored(task)
    \/ \E task \in inflight : CallbackTold(task)
    \/ \E task \in inflight : RemoteSet(task)
    \/ \E task \in inflight : RemoteRead(task)

SpecNotify == InitNotify /\ [][NextNotify]_vars

\* ----------------------------------------------------------------- backend

\* Most endpoints in the handler list of a Backend.
MaxEndpoints == 3

\* BackendMessage: Extension, ServiceMessage, PlainText by their variant
\* index, with the bytes that follow.
BackendTags == 0..2
\* bincode::deserialize of the bytes of a CustomMessage into a BackendMessage
backend_deserialize(msg) ==
    IF Len(msg) >= 1 /\ msg[1] \in BackendTags
    THEN [ok |-> TRUE, tag |-> msg[1], bytes |-> SubSeqFrom(msg, 2)]
    ELSE [ok |-> FALSE, tag |-> 0, bytes |-> << >>]

\* A message endpoint is known by the variants it fails on: none, the
\* service messages, all.
Endpoints == { { }, {1}, BackendTags }
\* MessageEndpoint::on_message of one endpoint
endpoint_on_message(endpoint, ctx, data) == IF data.tag \in endpoint THEN "Err" ELSE "Ok"

\* on_message of a list of endpoints that returns at the first error.
RECURSIVE Vec_on_message_until_error(_, _, _, _)
Vec_on_message_until_error(endpoints, ctx, data, from) ==
    IF from > Len(endpoints) THEN [result |-> "Ok", invoked |-> << >>]
    ELSE LET r == endpoint_on_message(endpoints[from], ctx, data)
             this == [endpoint |-> from, ctx |-> ctx, data |-> data, result |-> r]
         IN IF r = "Err" THEN [result |-> "Err", invoked |-> <<this>>]
            ELSE LET rest == Vec_on_message_until_error(endpoints, ctx, data, from + 1)
                 IN [result |-> rest.result, invoked |-> <<this>> \o rest.invoked]

\* MessageEndpoint<BackendMessage>::on_message of a Vec of endpoints, from
\* the endpoint at index `from` on: each is handed the provider, the payload
\* and the message; an error is logged.
RECURSIVE Vec_on_message(_, _, _, _)
Vec_on_message(endpoints, ctx, data, from) ==
    IF from > Len(endpoints) THEN [result |-> "Ok", invoked |-> << >>]
    ELSE LET r == endpoint_on_message(endpoints[from], ctx, data)
             rest == Vec_on_message(endpoints, ctx, data, from + 1)
         IN [result |-> "Ok",
             invoked |-> <<[endpoint |-> from, ctx |-> ctx, data |-> data, result |-> r]>>
                         \o rest.invoked]

\* Backend::on_inbound: the payload's message, if a CustomMessage, is
\* deserialized and handed to the handler by on_backend_message.
Backend_on_inbound(endpoints, payload) ==
    LET data == transaction_data(payload)
        backend_msg == backend_deserialize(data.body)
        none == [result |-> "Ok", invoked |-> << >>, dispatched |-> FALSE]
    IN IF ~data.ok THEN [none EXCEPT !.result = "Err"]
       ELSE IF data.tag # "CustomMessage" THEN none
       ELSE IF ~backend_msg.ok THEN [none EXCEPT !.result = "Err"]
       ELSE LET r == Vec_on_message(endpoints, payload, backend_msg, 1)
            IN [result |-> r.result, invoked |-> r.invoked, dispatched |-> TRUE]

\* The payloads on_inbound is called with: custom messages of each
\* BackendMessage variant, one that is no BackendMessage, an empty one, a
\* fragment, and one whose message does not decode.
Inbound ==
    {CustomPayload(1, TRUE, TRUE, 0, body) : body \in {<<0, 7>>, <<1, 7>>, <<2, 7>>, <<9>>, << >>}}
    \cup {ChunkPayload([id |-> 1, index |-> 0, total |-> 2, data |-> <<7>>], TRUE, 0),
          [CustomPayload(1, TRUE, TRUE, 0, << >>) EXCEPT !.data = <<5>>]}

\* A Backend is made with a list of endpoints as its handler.
InitBackend ==
    /\ conns = << >>
    /\ pool = [did \in Did |-> [cid \in {DidToString(d) : d \in Cids(did)} |-> None]]
    /\ CONNS = { }
    /\ CBS = { }
    /\ observed = << >>
    /\ chunk_list = << >>
    /\ todo = { }
    /\ sending = [id \in ChunkIds |-> << >>]
    /\ emitted = [id \in ChunkIds |-> << >>]
    /\ delivered = [id \in ChunkIds |-> 0]
    /\ op = NoOp
    /\ msgs = << >>
    /\ events = << >>
    /\ journal = << >>
    /\ ring = << >>
    /\ links = { }
    /\ gone = { }
    /\ ticks = << >>
    /\ inflight = { }
    /\ stopped = { }
    /\ handler \in UNION {[1..n -> Endpoints] : n \in 0..MaxEndpoints}

\* The swarm calls on_inbound of the Backend with a payload for this node.
OnInbound(payload) ==
    LET r == Backend_on_inbound(handler, payload) IN
    /\ op' = Op(IF r.dispatched THEN "on_backend_message" ELSE "on_inbound", None, 1, "",
                payload, "Unspecified", r.result, r.invoked, << >>)
    /\ UNCHANGED <<transportVars, chunk_list, chunkVars, swarmVars>>

NextBackend == \E payload \in Inbound : OnInbound(payload)

SpecBackend == InitBackend /\ [][NextBackend]_vars

\* ------------------------------------------------------------------ claims

Calls(o) == {o.calls[i] : i \in DOMAIN o.calls}
\* The DID of the node whose callback handled the calls of a send_message.
LocalDid(o) == conns[o.arg].did
\* The states a connection's observer was told during an operation, in order.
NotedStates(o, rand_id) ==
    LET mine == SelectSeq(o.notes, LAMBDA n : n.rand_id = rand_id)
    IN [i \in DOMAIN mine |-> mine[i].state]
\* The fragments of a chunk id the receiver still misses.
Pending(id) ==
    {msg \in todo : transaction_data(from_bincode(msg).payload).chunk.id = id}

\* C1: new_connection(cid) while the pool holds a New, Connecting or Connected
\* connection for cid returns ConnectionAlreadyExists and leaves the pool, the
\* connections and the tables CONNS and CBS as they were.
C1_LiveConnectionRefused ==
    [][ ( /\ op'.name = "new_connection"
          /\ connection(op'.did, op'.cid) # None
          /\ conns[connection(op'.did, op'.cid)].webrtc_connection_state \in LiveStates )
        => ( /\ op'.result = "ConnectionAlreadyExists"
             /\ UNCHANGED <<conns, pool, CONNS, CBS, observed, chunk_list>> ) ]_vars

C1_Witness ==
    /\ op.name = "new_connection"
    /\ op.result = "ConnectionAlreadyExists"
    /\ conns[connection(op.did, op.cid)].webrtc_connection_state = "Connecting"

\* C2: on_inbound is invoked only for payloads whose destination is the local
\* DID of the node that received them.
C2_InboundOnlyForLocalDid ==
    op.name = "send_message" =>
        \A c \in Calls(op) : c.inbound # "NotInvoked" => c.destination = LocalDid(op)

C2_Witness ==
    /\ op.name = "send_message"
    /\ \E c \in Calls(op) : /\ c.enqueued /\ c.tag = "CustomMessage" /\ c.result = "Ok"
                            /\ c.destination # LocalDid(op)
                            /\ c.inbound = "NotInvoked"

\* C3: a message whose payload or transaction verification fails is dropped:
\* on_message returns an error, on_validate is not invoked, no
\* DataChannelMessage event is enqueued, the chunk buffer is unchanged and
\* on_inbound is not called.
FailsVerification(msg) ==
    /\ from_bincode(msg).ok
    /\ ~(from_bincode(msg).payload.session_ok /\ from_bincode(msg).payload.tx_ok)
FailsValidation(did, msg) ==
    /\ from_bincode(msg).ok
    /\ ~FailsVerification(msg)
    /\ on_validate(did, from_bincode(msg).payload) = "Err"
C4_InvalidDropped ==
    [][ op'.name = "send_message" =>
          \A i \in DOMAIN op'.calls :
             FailsValidation(conns[op'.arg].did, op'.calls[i].msg) =>
                /\ op'.calls[i].validate = "Err"
                /\ op'.calls[i].result = "Err"
                /\ ~op'.calls[i].enqueued
                /\ op'.calls[i].chunk = "Untouched"
                /\ op'.calls[i].inbound = "NotInvoked"
                /\ i = Len(op'.calls)
                /\ i = 1 => UNCHANGED <<chunk_list, emitted, delivered>> ]_vars

C4_Witness ==
    /\ op.name = "send_message"
    /\ op.calls # << >>
    /\ op.calls[1].validate = "Err"
    /\ op.calls[1].tag = "Chunk"
    /\ chunk_list[op.arg] # { }

\* C5: when accept_answer returns, the offerer's connection and the
\* answerer's connection are both Connected and the observer of each was told
\* Connected last.
C5_HandshakeConnectsBoth ==
    (op.name = "accept_answer" /\ op.result = "Ok") =>
        /\ conns[op.rand_id].webrtc_connection_state = "Connected"
        /\ conns[op.arg].webrtc_connection_state = "Connected"
        /\ observed[op.rand_id] = "Connected"
        /\ observed[op.arg] = "Connected"

\* create_offer, answer_offer(offer), accept_answer(answer) in that order.
C5_Witness ==
    /\ op.name = "accept_answer"
    /\ op.result = "Ok"
    /\ op.state = "Connecting"
    /\ conns[op.arg].remote_rand_id = op.rand_id
    /\ NotedStates(op, op.rand_id) = <<"Connected">>
    /\ NotedStates(op, op.arg) = <<"Connected">>
    /\ Established

\* C6: close moves the connection to Closed; when it returns the remote end
\* is Closed too, and a remote end that was not Closed before was told
\* Disconnected and then Closed.
C6_CloseClosesBoth ==
    [][ op'.name = "close" =>
          /\ conns'[op'.rand_id].webrtc_connection_state = "Closed"
          /\ op'.result = "Ok" =>
                LET remote == conns[op'.rand_id].remote_rand_id IN
                /\ conns'[remote].webrtc_connection_state = "Closed"
                /\ (remote # op'.rand_id
                      /\ conns[remote].webrtc_connection_state # "Closed")
                   => NotedStates(op', remote) = <<"Disconnected", "Closed">> ]_vars

C6_Witness ==
    /\ op.name = "close"
    /\ op.result = "Ok"
    /\ op.state = "Connected"
    /\ NotedStates(op, op.rand_id) = <<"Closed">>
    /\ NotedStates(op, conns[op.rand_id].remote_rand_id) = <<"Disconnected", "Closed">>

\* C7: send_message on a connection that is not Connected fails and delivers
\* nothing to the remote on_message.
C7_SendNeedsConnected ==
    (op.name = "send_message" /\ op.state # "Connected") =>
        (op.result # "Ok" /\ op.calls = << >>)

\* C8: wait_for_data_channel_open fails when the connection is Failed or
\* Closed and resolves only when the connection is Connected.
C8_WaitFailsWhenClosed ==
    op.name = "wait_for_data_channel_open" =>
        /\ op.state \in {"Failed", "Closed"} => op.result # "Ok"
        /\ op.result = "Ok" => op.state = "Connected"

\* C9: on_inbound is never invoked for a fragment; for a payload addressed to
\* the local DID and split into fragments it is not invoked while a fragment
\* is missing and has been invoked once, with the reassembled payload, when
\* none is.
AcceptedLocalPayload(bytes) ==
    /\ from_bincode(bytes).ok
    /\ ~FailsVerification(bytes)
    /\ ~FailsValidation(Receiver, bytes)
    /\ transaction_data(from_bincode(bytes).payload).tag = "CustomMessage"
    /\ from_bincode(bytes).payload.destination = Receiver
C9_InboundOncePerChunkedPayload ==
    /\ \A c \in Calls(op) : c.tag = "Chunk" => c.inbound = "NotInvoked"
    /\ \A id \in ChunkIds :
          /\ Pending(id) # { } => delivered[id] = 0
          /\ (Pending(id) = { } /\ AcceptedLocalPayload(sending[id]))
             => (delivered[id] = 1 /\ emitted[id] = <<sending[id]>>)

C9_Witness ==
    /\ todo = { }
    /\ chunk_total(sending[1]) > 2
    /\ AcceptedLocalPayload(sending[1])
    /\ delivered[1] = 1
    /\ op.name = "send_message"
    /\ Len(op.calls) = 2
    /\ op.calls[2].inbound = "Ok"

\* C10: for every byte string and every order of its fragments the
\* reassembler returns nothing until the last fragment and then returns the
\* byte string.
C10_ChunkRoundTrip ==
    \A id \in ChunkIds :
        /\ Pending(id) # { } => emitted[id] = << >>
        /\ Pending(id) = { } => emitted[id] = <<sending[id]>>

C10_Witness ==
    /\ todo = { }
    /\ \A id \in ChunkIds : emitted[id] = <<sending[id]>>
    /\ Len(sending[1]) = TRANSPORT_MTU + 1
    /\ Len(sending[2]) = MaxLen

\* C11: for any chunk id the reassembler emits an assembled payload at most
\* once, whatever the interleaving of two payloads sharing the id and
\* whatever fragments are delivered again.
C11_AtMostOnePayloadPerId ==
    \A id \in ChunkIds : Len(emitted[id]) <= 1


\* The payloads a node's on_inbound collected that are the journal entry's
\* payload: same origin, same transaction data.
Collected(did, e) ==
    SelectSeq(msgs[did], LAMBDA p : p.origin = e.payload.origin /\ p.data = e.payload.data)
\* A send_message of a node's application to the DID of a peer it is
\* connected to.
Direct(e) == e.kind = "created" /\ {e.by, e.payload.destination} \in links

\* No DataChannelMessage event waits in any swarm's channel.
Quiet == \A did \in DOMAIN events : events[did] = << >>
\* The sender's next hop for the destination is the destination itself.
NextHopIsDestination(e) ==
    next_hop(ring[e.by], e.payload).to = e.payload.destination

\* C12 as stated: once the network is quiet, every message a node sent with
\* send_message to a directly connected peer has been collected by that
\* peer's on_inbound exactly once, with an empty relay path, and by no other
\* node's on_inbound.
C12_DirectDeliveredOnce ==
    Quiet =>
        \A i \in DOMAIN journal :
            LET e == journal[i]
                to == e.payload.destination
            IN Direct(e)
               => /\ Len(Collected(to, e)) = 1
                  /\ Collected(to, e)[1].relay = << >>
                  /\ \A did \in RouteDid \ {to} : Collected(did, e) = << >>

\* C12, amended: every message a node sent with send_message to a directly
\* connected peer that is the sender's next hop for its own DID, and which
\* that peer's on_validate accepts, has been collected by the peer's
\* on_inbound exactly once, with an empty relay path and the destination
\* sent, and by no other node's on_inbound, the sender's included.
C12_NextHopDeliveredOnce ==
    \A i \in DOMAIN journal :
        LET e == journal[i]
            to == e.payload.destination
        IN (Direct(e) /\ NextHopIsDestination(e) /\ on_validate(to, e.payload) = "Ok")
           => /\ Len(Collected(to, e)) = 1
              /\ Collected(to, e)[1].relay = << >>
              /\ Collected(to, e)[1].destination = to
              /\ \A did \in RouteDid \ {to} : Collected(did, e) = << >>
C12_Witness ==
    /\ op.name = "send_message"
    /\ Len(journal) = 2
    /\ \A i \in 1..2 : /\ Direct(journal[i])
                       /\ journal[i].by = 1
                       /\ NextHopIsDestination(journal[i])
                       /\ on_validate(2, journal[i].payload) = "Ok"
    /\ Len(msgs[2]) = 2
    /\ msgs[1] = << >>

\* C13: after close_connection(cid) took a connection out of the pool,
\* upgrade() fails on a ConnectionRef obtained for cid while it was pooled, and
\* connection(cid) does not return the connection.
C13_ClosedRefsInvalid ==
    (op.name = "close_connection" /\ op.rand_id # None)
    => /\ upgrade(ConnectionRef(op.rand_id)) # "Ok"
       /\ connection(op.did, op.cid) # op.rand_id

\* The PeerRings without their round-robin finger index.
RingView(rg) == [did \in DOMAIN rg |-> [rg[did] EXCEPT !.fix_index = 0]]
\* No peer has left, the ring has not converged, and no tick of any peer,
\* whichever finger is its next to fix, changes a successor list, a
\* predecessor, a finger or a connection: the ring never converges from here.
Stuck ==
    /\ gone = { }
    /\ ~Converged
    /\ \A f \in [Peers -> Fingers] : \A did \in Peers :
          LET w == [ring |-> [d \in Peers |-> [ring[d] EXCEPT !.fix_index = f[d]]],
                    links |-> links]
          IN RingView(tick(w, did).ring) = RingView(ring) /\ tick(w, did).links = links

\* C14 as stated: peers that establish connections, whichever they are as long
\* as no peer is cut off, and keep running stabilizer ticks never come to a
\* ring that is not converged and that ticks do not change any more.
C14_NeverStuck == ~Stuck

\* C14, amended: peers that start connected at least to their DID-neighbours
\* by key sort have converged once N - 1 stabilizer periods are over (every
\* peer ticking once a period, in any order), and a converged ring stays
\* converged under ticks and Closed events while no peer leaves.
C14_ConvergesFromNeighbours ==
    /\ []((gone = { } /\ ticks.neighbours /\ ticks.rounds >= Cardinality(Peers) - 1)
          => Converged)
    /\ [][(Converged /\ gone' = gone) => Converged']_vars
C14_Witness ==
    /\ op.name = "tick"
    /\ gone = { }
    /\ Cardinality(Peers) = MaxPeers
    /\ ticks.neighbours
    /\ links # Pairs(Peers)
    /\ ticks.rounds = MaxRounds
    /\ Converged

\* The first clockwise successor of a key among the live peers: the peer at
\* the key or the next one clockwise.
first_successor(k) ==
    CHOOSE d \in Alive : \A e \in Alive : distance(k, d) <= distance(k, e)
\* The DIDs a PeerRing names.
Names(r) ==
    (Range(r.successor_list) \cup {r.predecessor} \cup {r.finger_table[i] : i \in Fingers})
    \ {NoDid}
\* No live peer's PeerRing names a peer that has left.
Clean == \A did \in Alive : Names(ring[did]) \cap gone = { }
NoRepeats(seq) == \A i, j \in DOMAIN seq : seq[i] = seq[j] => i = j

SameTransaction(p, q) == p.origin = q.origin /\ p.data = q.data
\* The journal's entries of the forwards of a payload, in order.
Forwards(p) ==
    SelectSeq(journal, LAMBDA e : e.kind = "forwarded" /\ SameTransaction(e.payload, p))
\* The nodes that forwarded a payload, in forwarding order.
Forwarders(p) == [i \in DOMAIN Forwards(p) |-> Forwards(p)[i].by]
\* The payload as it entered the network.
AsCreated(p) ==
    (CHOOSE e \in Range(Created) : SameTransaction(e.payload, p)).payload
\* The payloads in the swarms' event channels and those on_inbound collected.
InFlight ==
    UNION {{from_bincode(events[did][i]).payload : i \in DOMAIN events[did]} : did \in RouteDid}
Arrived == UNION {Range(msgs[did]) : did \in RouteDid}

\* C17: a node never forwards a payload whose relay hop list, as the node
\* received it, holds the node's own DID, and no payload is forwarded twice by
\* one node.
C17_NoLoop ==
    /\ \A e \in Range(journal) :
          e.kind = "forwarded" => e.by \notin Range(e.payload.relay)
    /\ \A e \in Range(Created) : NoRepeats(Forwarders(e.payload))
    /\ (op.name = "forward" /\ op.decision.kind = "LoopDetected")
       => /\ op.did \in Range(op.decision.payload.relay)
          /\ op.result = "LoopDetected"
C17_Witness ==
    /\ op.name = "forward"
    /\ op.decision.kind = "LoopDetected"
    /\ op.decision.payload.destination = Unreachable
    /\ Range(op.decision.payload.relay) = RouteDid
    /\ Forwards(op.decision.payload) = << >>

\* C18: every payload a node has received or collected has ttl_hops >= 1 and
\* the ttl_hops it was created with less one for each relay entry added since;
\* a payload created with ttl_hops = T has been forwarded by at most T - 1
\* nodes.
C18_TtlBounded ==
    /\ \A p \in InFlight \cup Arrived :
          /\ p.ttl_hops >= 1
          /\ p.ttl_hops = AsCreated(p).ttl_hops - (Len(p.relay) - Len(AsCreated(p).relay))
    /\ \A e \in Range(Created) : Len(Forwards(e.payload)) <= e.payload.ttl_hops - 1
    /\ (op.name = "forward" /\ op.decision.kind = "Send")
       => op.decision.payload.ttl_hops >= 1
C18_Witness ==
    /\ op.name = "forward"
    /\ op.decision.kind = "TtlExpired"
    /\ op.decision.payload.ttl_hops = 1
    /\ Len(Forwards(op.decision.payload)) = AsCreated(op.decision.payload).ttl_hops - 1
    /\ Len(Forwards(op.decision.payload)) >= 1

\* C19: a payload is collected only by the on_inbound of its destination, and
\* the relay path of a collected payload that a send_message created is the
\* list of the nodes that forwarded it, in forwarding order, with neither the
\* origin nor the destination in it.
C19_RelayPathIsForwarders ==
    \A did \in RouteDid : \A p \in Range(msgs[did]) :
        /\ p.destination = did
        /\ \A e \in Range(Created) :
              (e.kind = "created" /\ SameTransaction(e.payload, p))
              => /\ p.relay = Forwarders(p)
                 /\ p.origin \notin Range(p.relay)
                 /\ p.destination \notin Range(p.relay)
C19_Witness ==
    /\ op.name = "forward"
    /\ op.did = 2
    /\ msgs[2] = << >>
    /\ Len(msgs[3]) = 1
    /\ msgs[3][1].origin = 1
    /\ msgs[3][1].relay = <<2>>
    /\ journal[1].kind = "created"

\* The peer that left, and its clockwise neighbour in the ring before it left.
Left == CHOOSE d \in gone : TRUE
former_successor == nearest_clockwise(Left, Peers)

Sorted(did, list) ==
    \A i, j \in DOMAIN list : i < j => distance(did, list[i]) < distance(did, list[j])

\* C21: whatever joins, leaves, notifies and stabilizer ticks a PeerRing has
\* gone through, its successor list has at most succ_max entries (SUCC_MAX
\* unless dht_succ_max was set on the builder), is sorted by clockwise
\* distance from local_did without duplicates, and neither the successor list
\* nor the predecessor is local_did.
C21_SuccessorListShape ==
    \A did \in DOMAIN ring :
        LET r == ring[did] IN
        /\ Len(r.successor_list) <= r.succ_max
        /\ Sorted(did, r.successor_list)
        /\ NoRepeats(r.successor_list)
        /\ did \notin Range(r.successor_list)
        /\ r.predecessor # did
C21_Witness ==
    /\ op.name = "join"
    /\ ring[Local].succ_max = 2
    /\ Len(ring[Local].successor_list) = 2
    /\ op.arg \notin Range(ring[Local].successor_list) \cup {Local}
    /\ ring[Local].predecessor # NoDid

\* d comes before e in a list.
Before(list, d, e) == \E i, j \in DOMAIN list : i < j /\ list[i] = d /\ list[j] = e

\* C22: leave(peer_did) leaves a PeerRing in which no successor, no finger and
\* not the predecessor is peer_did; the other successors are kept in their
\* order, the other fingers and a predecessor that is another DID are kept,
\* and so are local_did, succ_max and the finger to fix next.
C22_LeaveRemovesOnlyPeer ==
    [][op'.name = "leave"
       => LET r == ring[op'.did]
              n == ring'[op'.did]
              p == op'.arg
          IN /\ p \notin Names(n)
             /\ Range(n.successor_list) = Range(r.successor_list) \ {p}
             /\ Len(n.successor_list) = Cardinality(Range(r.successor_list) \ {p})
             /\ \A d, e \in Range(n.successor_list) :
                   Before(n.successor_list, d, e) <=> Before(r.successor_list, d, e)
             /\ r.predecessor = p => n.predecessor = NoDid
             /\ r.predecessor # p => n.predecessor = r.predecessor
             /\ \A i \in Fingers : r.finger_table[i] # p => n.finger_table[i] = r.finger_table[i]
             /\ n.local_did = r.local_did
             /\ n.succ_max = r.succ_max
             /\ n.fix_index = r.fix_index]_vars
C22_Witness ==
    /\ op.name = "leave"
    /\ journal = <<[successor |-> TRUE, predecessor |-> TRUE, finger |-> TRUE]>>
    /\ op.arg \notin Names(ring[Local])
    /\ Len(ring[Local].successor_list) = 2
    /\ \E i \in Fingers : ring[Local].finger_table[i] # NoDid

\* C23: notify(peer_did) makes peer_did the predecessor when peer_did is
\* another DID and there is no predecessor or peer_did lies clockwise-between
\* the predecessor and local_did; in every other case, a notify carrying
\* local_did among them, the predecessor stays as it was. Nothing else of the
\* PeerRing changes.
C23_NotifyAcceptsBetween ==
    [][op'.name = "notify"
       => LET r == ring[op'.did]
              n == ring'[op'.did]
              p == op'.arg
              accepted == /\ p # r.local_did
                          /\ \/ r.predecessor = NoDid
                             \/ between(r.predecessor, p, r.local_did)
          IN /\ accepted => n.predecessor = p
             /\ ~accepted => n.predecessor = r.predecessor
             /\ n.predecessor # r.local_did
             /\ n = [r EXCEPT !.predecessor = n.predecessor]]_vars
C23_Witness ==
    /\ op.name = "notify"
    /\ journal # << >>
    /\ journal[1].predecessor \notin {NoDid, op.arg}
    /\ ring[Local].predecessor = op.arg
    /\ between(journal[1].predecessor, op.arg, Local)

\* C24: no observer callback runs inside a send_message that is in progress:
\* a send_message returns without an on_message call and without a state
\* notification made in its call stack.
C24_NoCallbackInsideSend ==
    op.name = "send_message" => (op.calls = << >> /\ op.notes = << >>)

\* C25: the remote on_message gets the messages of one connection in the
\* order in which the send_message calls were made, also when several calls
\* are in flight at once.
C25_DeliveredInCallOrder ==
    \A i, j \in DOMAIN Handed :
        (i < j /\ Handed[i].rand_id = Handed[j].rand_id) => Handed[i].call < Handed[j].call

\* The transport event of a notification waits in the channel of the
\* notified node: the event loop has not handled it.
Unhandled(n) ==
    \E i \in DOMAIN events[CallbackOf(n.rand_id).did] :
        events[CallbackOf(n.rand_id).did][i] = TransportEvent(n.event, n.peer, << >>)

\* C26: when on_event has been invoked for a state change from which a
\* Connected or Closed event derives, the event loop has handled that event:
\* it is not waiting in the channel.
C26_OnEventAfterHandling ==
    \A i \in DOMAIN op.notes :
        (op.notes[i].on_event # "NotInvoked" /\ op.notes[i].event # "None")
        => ~Unhandled(op.notes[i])

\* The last note of an operation about a connection.
LastNote(o, rand_id) ==
    o.notes[CHOOSE i \in DOMAIN o.notes :
               /\ o.notes[i].rand_id = rand_id
               /\ \A j \in DOMAIN o.notes : o.notes[j].rand_id = rand_id => j <= i]
\* A user callback returned an error during the operation.
Failed(o) ==
    \/ \E i \in DOMAIN o.notes : o.notes[i].on_event = "Err"
    \/ \E i \in DOMAIN o.calls : o.calls[i].inbound = "Err"
\* The event a state stands for in the channel.
EventOf(state) ==
    IF state = "Connected" THEN "Connected"
    ELSE IF state \in {"Failed", "Disconnected", "Closed"} THEN "Closed" ELSE "None"

\* C27: an error of on_event or on_inbound stops nothing. The event of the
\* state change or of the message is in the channel, the connection is in the
\* state the last notification reported, the operation returns Ok and goes on
\* to its later notifications; and the operation that follows on an open
\* channel has its message enqueued and handed to on_inbound, its state
\* changes enqueued and handed to on_event.
C27_CallbackErrorsStopNothing ==
    /\ [](/\ \A i \in DOMAIN op.notes :
               LET n == op.notes[i] IN
               n.on_event = "Err"
               => /\ n.event = EventOf(n.state)
                  /\ n.event # "None" => Unhandled(n)
                  /\ conns[n.rand_id].webrtc_connection_state = LastNote(op, n.rand_id).state
                  /\ observed[n.rand_id] = LastNote(op, n.rand_id).state
                  /\ op.result = "Ok"
                  /\ (op.name = "close" /\ n.state = "Disconnected")
                        => /\ i < Len(op.notes)
                           /\ op.notes[i + 1].state = "Closed"
                           /\ op.notes[i + 1].on_event # "NotInvoked"
          /\ \A i \in DOMAIN op.calls :
               LET c == op.calls[i] IN
               c.inbound = "Err"
               => /\ c.enqueued
                  /\ \E k \in DOMAIN events[conns[op.arg].did] :
                        events[conns[op.arg].did][k]
                            = TransportEvent("DataChannelMessage", NoDid, c.msg)
                  /\ op.result = "Ok")
    /\ [][Failed(op)
          => /\ (op'.name = "send_message" /\ conns[op'.arg].did \notin stopped)
                   => /\ Len(op'.calls) = 1
                      /\ op'.calls[1].enqueued
                      /\ op'.calls[1].inbound # "NotInvoked"
             /\ \A i \in DOMAIN op'.notes :
                   LET n == op'.notes[i] IN
                   CallbackOf(n.rand_id).did \notin stopped
                   => /\ n.event = EventOf(n.state)
                      /\ n.on_event # "NotInvoked"
                      /\ conns'[n.rand_id].webrtc_connection_state
                            = LastNote(op', n.rand_id).state]_vars
C27_Witness ==
    /\ op.name = "close"
    /\ Len(op.notes) = 3
    /\ op.notes[2].state = "Disconnected"
    /\ op.notes[2].on_event = "Err"
    /\ op.notes[3].on_event = "Ok"
    /\ Unhandled(op.notes[2])

\* C28: on_peer_connection_state_change(cid, s) with a cid that is a DID sends
\* Connected(did) for Connected, Closed(did) for Failed, Disconnected and
\* Closed, nothing for New, Connecting and Unspecified, and then invokes
\* on_event with the state and returns what it returns; when the send fails
\* on_event is not invoked; with a cid that is no DID nothing is sent,
\* on_event is not invoked and Ok is returned.
C28_StateChangeEvents ==
    [][op'.name = "on_peer_connection_state_change"
       => LET n == op'.notes[1]
              did == op'.did
              parsed == DidFromStr(op'.cid)
              kind == IF n.state = "Connected" THEN "Connected"
                      ELSE IF n.state \in {"Failed", "Disconnected", "Closed"} THEN "Closed"
                      ELSE "None"
              sent == [events EXCEPT ![did] = Append(@, TransportEvent(kind, parsed.did, << >>))]
          IN IF ~parsed.ok
             THEN events' = events /\ n.on_event = "NotInvoked" /\ op'.result = "Ok"
             ELSE IF kind = "None"
             THEN events' = events /\ n.on_event # "NotInvoked" /\ op'.result = n.on_event
             ELSE IF did \in stopped
             THEN events' = events /\ n.on_event = "NotInvoked" /\ op'.result = "Err"
             ELSE events' = sent /\ n.on_event # "NotInvoked" /\ op'.result = n.on_event]_vars
C28_Witness ==
    /\ op.name = "on_peer_connection_state_change"
    /\ op.state = "New"
    /\ op.notes[1].state = "Failed"
    /\ op.notes[1].on_event = "Ok"
    /\ op.did = 2
    /\ events[2] = <<TransportEvent("Connected", 1, << >>), TransportEvent("Closed", 1, << >>)>>
    /\ stopped = {1}

\* C29: the notifications an operation makes about a connection lead from the
\* state the connection had to the state it has, each one carrying a state
\* other than the one before it: one notification for every change, none for
\* a state set again.
C29_OneNotificationPerChange ==
    [][\A rand_id \in DOMAIN conns :
          LET seq == NotedStates(op', rand_id)
              path == <<conns[rand_id].webrtc_connection_state>> \o seq
          IN /\ \A i \in DOMAIN seq : path[i] # path[i + 1]
             /\ path[Len(path)] = conns'[rand_id].webrtc_connection_state
             /\ seq # << >> => observed'[rand_id] = seq[Len(seq)]
             /\ seq = << >> => observed'[rand_id] = observed[rand_id]]_vars
C29_Witness ==
    /\ op.name = "close"
    /\ op.result = "Ok"
    /\ op.state = "Closed"
    /\ conns[op.rand_id].webrtc_connection_state = "Closed"
    /\ op.notes = << >>

\* A byte string that passes parse, verify and on_validate at the receiver.
Passes(bytes) ==
    /\ from_bincode(bytes).ok
    /\ ~FailsVerification(bytes)
    /\ ~FailsValidation(Receiver, bytes)

\* C30: in every on_message call the steps come in the order parse, verify,
\* on_validate, event, chunk handling / on_inbound, each step made only when
\* the one before it passed; a message that passes the first three steps has
\* its event sent, whatever its destination, and no other message has. Of a
\* payload of N fragments the accepted fragments have had one event and one
\* on_validate call each, and once all are accepted and the reassembled
\* payload passes the three steps itself, N + 1 events have been sent and
\* on_validate has run N + 1 times.
C30_InboundOrder ==
    /\ \A c \in Calls(op) :
          /\ c.verified => c.parsed
          /\ c.validate # "NotInvoked" <=> c.verified
          /\ c.enqueued <=> (c.verified /\ c.validate = "Ok")
          /\ (c.chunk # "Untouched" \/ c.inbound # "NotInvoked") => c.enqueued
          /\ (c.parsed /\ ~FailsVerification(c.msg) /\ ~FailsValidation(LocalDid(op), c.msg))
                => c.enqueued
    /\ \A id \in ChunkIds :
          LET n == chunk_total(sending[id]) IN
          /\ Pending(id) # { }
                => /\ Counted(id).events = n - Cardinality(Pending(id))
                   /\ Counted(id).validated = n - Cardinality(Pending(id))
          /\ (Pending(id) = { } /\ Passes(sending[id]))
                => /\ Counted(id).events = n + 1
                   /\ Counted(id).validated = n + 1
          /\ (Pending(id) = { } /\ ~Passes(sending[id]))
                => Counted(id).events = n
C30_Witness ==
    /\ todo = { }
    /\ chunk_total(sending[1]) > 2
    /\ Passes(sending[1])
    /\ from_bincode(sending[1]).payload.destination # Receiver
    /\ Counted(1).events = chunk_total(sending[1]) + 1
    /\ Counted(1).validated = chunk_total(sending[1]) + 1
    /\ Counted(2).events = chunk_total(sending[2]) + 1
    /\ delivered[1] = 0

\* C31: new_connection(cid) succeeds when the pool holds no connection for
\* cid or one that is Disconnected, Failed or Closed; afterwards
\* connection(cid) is a connection that did not exist before, in state New,
\* with its callback registered under the node's DID and cid, and the
\* connection pooled before is not the one returned.
C31_NewConnectionReplaces ==
    [][ ( /\ op'.name = "new_connection"
          /\ \/ connection(op'.did, op'.cid) = None
             \/ conns[connection(op'.did, op'.cid)].webrtc_connection_state
                   \in {"Disconnected", "Failed", "Closed"} )
        => ( /\ op'.result = "Ok"
             /\ pool'[op'.did][op'.cid] = op'.rand_id
             /\ op'.rand_id \notin DOMAIN conns
             /\ op'.rand_id \in DOMAIN conns'
             /\ conns'[op'.rand_id].webrtc_connection_state = "New"
             /\ conns'[op'.rand_id].remote_rand_id = None
             /\ [rand_id |-> op'.rand_id, did |-> op'.did, cid |-> op'.cid] \in CBS'
             /\ op'.rand_id \in CONNS'
             /\ pool'[op'.did][op'.cid] # connection(op'.did, op'.cid)
             /\ \A r \in DOMAIN conns : conns'[r] = conns[r] ) ]_vars
C31_Witness ==
    /\ op.name = "new_connection"
    /\ op.result = "Ok"
    /\ connection(op.did, op.cid) = op.rand_id
    /\ \E old \in DOMAIN conns :
          /\ old # op.rand_id
          /\ conns[old].did = op.did
          /\ conns[old].cid = op.cid
          /\ conns[old].webrtc_connection_state = "Closed"

\* The connections made for a cid of a node that are New, Connecting or
\* Connected.
LiveFor(did, cid) ==
    {r \in DOMAIN conns : /\ conns[r].did = did
                          /\ conns[r].cid = cid
                          /\ conns[r].webrtc_connection_state \in LiveStates}
Underway(rand_id) == \E task \in inflight : task.rand_id = rand_id

\* C32: new_connection calls that run at once for one cid never leave two
\* live connections for it: the live connection is the pooled one, it is in
\* CONNS and CBS under its own rand_id once its call has returned, of two
\* calls that returned Ok at most one made a connection that is still live,
\* and a call that does not return Ok returns ConnectionAlreadyExists.
C32_OneLiveConnection ==
    /\ \A did \in Did : \A cid \in DOMAIN pool[did] :
          /\ Cardinality(LiveFor(did, cid)) <= 1
          /\ \A r \in LiveFor(did, cid) :
                /\ pool[did][cid] = r
                /\ ~Underway(r) =>
                      /\ r \in CONNS
                      /\ [rand_id |-> r, did |-> did, cid |-> cid] \in CBS
    /\ \A i \in DOMAIN journal :
          /\ journal[i].result \in {"Ok", "ConnectionAlreadyExists"}
          /\ journal[i].result = "ConnectionAlreadyExists" => journal[i].rand_id = None
          /\ \A j \in DOMAIN journal :
                ( /\ i # j
                  /\ journal[i].result = "Ok"
                  /\ journal[j].result = "Ok"
                  /\ journal[i].did = journal[j].did )
                => ~( /\ conns[journal[i].rand_id].webrtc_connection_state \in LiveStates
                      /\ conns[journal[j].rand_id].webrtc_connection_state \in LiveStates )
C32_Witness ==
    /\ inflight = { }
    /\ \E i \in DOMAIN journal : \E j \in DOMAIN journal :
          /\ journal[i].result = "Ok"
          /\ journal[j].result = "ConnectionAlreadyExists"
          /\ journal[j].at = "insert"
          /\ journal[i].did = journal[j].did
          /\ conns[journal[i].rand_id].webrtc_connection_state = "New"

\* The place of a state on the way New, Connecting, Connected,
\* Disconnected / Failed, Closed.
Rank(state) ==
    CASE state = "New" -> 1
      [] state = "Connecting" -> 2
      [] state = "Connected" -> 3
      [] state \in {"Disconnected", "Failed"} -> 4
      [] state = "Closed" -> 5
      [] OTHER -> 0

\* C33: no operation moves a connection back on the way New, Connecting,
\* Connected, Disconnected / Failed, Closed; a Closed connection stays Closed.
C33_StateOnlyForward ==
    [][ \A r \in DOMAIN conns :
           /\ Rank(conns'[r].webrtc_connection_state) >= Rank(conns[r].webrtc_connection_state)
           /\ conns[r].webrtc_connection_state = "Closed"
                 => conns'[r].webrtc_connection_state = "Closed" ]_vars

\* C34: on_message reaches the callback of a connection only while that
\* connection, the receiving end, is Connected.
C34_MessageOnlyToConnected ==
    (op.name = "send_message" /\ op.calls # << >>)
        => conns[op.arg].webrtc_connection_state = "Connected"

\* C35: close on one end of a connection whose two ends are Connected sends
\* one Closed(peer) event into the channel of the closing node and two into
\* the channel of the remote node, for its Disconnected and for its Closed,
\* each naming the node at the other end; a node whose event loop has ended
\* gets none.
C35_ClosedEventsOfClose ==
    [][ LET local == op'.rand_id
            remote == conns[local].remote_rand_id
        IN ( /\ op'.name = "close"
             /\ conns[local].webrtc_connection_state = "Connected"
             /\ remote # None
             /\ conns[remote].webrtc_connection_state = "Connected" )
           => LET here == conns[local].did
                  there == conns[remote].did
                  closed(peer) == TransportEvent("Closed", peer, << >>)
              IN /\ here # there
                 /\ events'[here] = IF here \in stopped THEN events[here]
                                    ELSE Append(events[here], closed(there))
                 /\ events'[there] = IF there \in stopped THEN events[there]
                                     ELSE events[there] \o <<closed(here), closed(here)>>
                 /\ [i \in DOMAIN op'.notes |-> op'.notes[i].state]
                       = <<"Closed", "Disconnected", "Closed">> ]_vars
C35_Witness ==
    /\ op.name = "close"
    /\ op.state = "Connected"
    /\ op.rand_id = 1
    /\ Len(op.notes) = 3
    /\ stopped = { }
    /\ events[1] = <<TransportEvent("Closed", 2, << >>)>>
    /\ events[2] = <<TransportEvent("Closed", 1, << >>), TransportEvent("Closed", 1, << >>)>>
    /\ 2 \in Range(ring[1].successor_list)

\* C37: a connection that connection(cid) returns, or that is the remote of
\* another, has its callback in CBS, so that create_offer on a connection
\* taken from the pool never panics for want of the callback, also while the
\* new_connection that made the connection is still under way.
C37_CallbackRegistered ==
    /\ op.name = "create_offer" => op.result # "Panic"
    /\ \A did \in Did : \A cid \in DOMAIN pool[did] :
          (connection(did, cid) # None /\ ~Underway(connection(did, cid)))
             => HasCallback(connection(did, cid))

\* C36: the notifications of a connection come in the order in which its
\* state changes were made, so that when no operation is under way the last
\* state its observer was told is the state the connection has.
C36_LastNotifiedIsFinal ==
    inflight = { } =>
        \A r \in DOMAIN conns : observed[r] = conns[r].webrtc_connection_state

\* C38: the handling of a fragment always completes: no on_message call is
\* left waiting for the lock of the connection's chunk list while
\* handle_payload holds it, also when the reassembled payload is a Chunk
\* message.
C38_ChunkHandlingCompletes ==
    /\ op.result # "Deadlock"
    /\ \A c \in Calls(op) : c.result # "Deadlock"

\* C39: a backend message handed to a list of endpoints reaches every
\* endpoint once, in list order, each with the payload and the message that
\* came in; an endpoint that fails does not keep the later ones from being
\* invoked, and the dispatch returns Ok.
C39_EveryEndpointInvoked ==
    op.name = "on_backend_message" =>
        /\ op.result = "Ok"
        /\ Len(op.notes) = Len(handler)
        /\ \A i \in DOMAIN op.notes :
              /\ op.notes[i].endpoint = i
              /\ op.notes[i].ctx = op.arg
              /\ op.notes[i].data = backend_deserialize(transaction_data(op.arg).body)
              /\ op.notes[i].result = endpoint_on_message(handler[i], op.arg, op.notes[i].data)
C39_Witness ==
    /\ op.name = "on_backend_message"
    /\ Len(handler) = 3
    /\ op.notes[1].result = "Err"
    /\ op.notes[2].result = "Ok"
    /\ op.notes[3].result = "Err"
    /\ op.result = "Ok"

====
